---- MODULE Spec2Model ----
(***************************************************************************)
(* A model of llmfuncs: the bounded-concurrency batch scheduler            *)
(* (runBatchesInParallel, src/src/shared/batching.ts), the filter function  *)
(* built on it (src/src/funcs/filter.ts) and the find function built on it *)
(* (the second listing of src/README.md, with the cancellation signal).    *)
(*                                                                         *)
(* JavaScript arrays are modelled as sequences: the array index k is the   *)
(* sequence position k + 1.  Index VALUES (batchIndex, originalIndex, the  *)
(* local indices a provider reports) keep their 0-based JavaScript value.  *)
(*                                                                         *)
(* The program runs on a single-threaded event loop.  The synchronous code *)
(* of the scheduler between two awaits cannot be interrupted: while the    *)
(* scheduler is at a synchronous position (pc "outer" or "inner") no task  *)
(* completion and no timer is handled.                                     *)
(***************************************************************************)
EXTENDS Integers, Sequences, FiniteSets, TLC

\* ------------------------------------------------------------------ bounds
MaxBatches == 3
MaxConcurrent == 2
MaxRetriesBound == 1

\* the values a caller may pass for delayBetweenStartsMs: none, or some
DelayChoices == {0, 50}
\* the payloads a successful task may return in the scheduler-only model
DataVals == {"x"}

\* ------------------------------------------------------- program constants
DefaultMaxRetries == 3
BaseDelayMs == 1000
IdleDelayMs == 5
DefaultMaxItemsPerBatch == 50
DefaultMaxConcurrentBatches == 5
DefaultDelayBetweenStartsMs == 0

VARIABLES
    batches,                \* runBatchesInParallel: the batches parameter
    maxConcurrentBatches,   \* parameter
    delayBetweenStartsMs,   \* parameter
    maxRetries,             \* parameter
    results,                \* const results = new Array(batches.length)
    currentBatchIndex,      \* let currentBatchIndex = 0
    runningPromises,        \* const runningPromises: the batch index of each promise
    pc,                     \* position of the body of runBatchesInParallel
    awaited,                \* the promises handed to Promise.race / Promise.all
    timerMs,                \* the duration of the timer the body is waiting on
    task,                   \* per batch: position of its processAndTrack chain
    invocations,            \* per batch: number of calls of processBatchFn so far
    completed,              \* history: batch indices in order of completion
    outcome,                \* settlement of the promise runBatchesInParallel returned
    items,                  \* filter: the unfiltered parameter
    maxItemsPerBatch,       \* filter: the effective batching.maxItemsPerBatch
    fpc,                    \* filter: position of the body of filter
    output,                 \* filter: settlement of the promise filter returned
    reported,               \* history: original indices the provider reported so far
    pred,                   \* the item values a deciding provider accepts
    fn,                     \* the function that was called: "filter", "find", "find1" or "none"
    options,                \* the options parameter of the call
    config,                 \* GLOBAL_CONFIG at the time of the call
    previous,               \* settlement of the preceding call with the same arguments
    strategy,               \* find: the effective strategy
    firstMatchIndex,        \* find: let firstMatchIndex = -1
    aborted,                \* find: abortController.signal.aborted
    skipped,                \* find: batches whose processBatchUnordered returned early
    executions,             \* history: number of calls of provider.execute so far
    threw,                  \* history: a call of provider.execute threw
    outOfRange,             \* history: a response named an index outside its batch
    carray,                 \* chunk: the array parameter
    csize,                  \* chunk: the chunkSize parameter
    ci,                     \* chunk: let i = 0
    cresult,                \* chunk: const result = []
    cpc                     \* chunk: position of the body of chunk

schedVars == << batches, maxConcurrentBatches, delayBetweenStartsMs, maxRetries,
                results, currentBatchIndex, runningPromises, pc, awaited, timerMs,
                task, invocations, completed, outcome >>

filterVars == << items, maxItemsPerBatch, fpc, output, reported, pred >>

findVars == << fn, options, config, previous, strategy, firstMatchIndex, aborted, skipped,
               executions, threw, outOfRange >>

chunkVars == << carray, csize, ci, cresult, cpc >>

\* everything outside runBatchesInParallel
callerVars == << filterVars, findVars, chunkVars >>

vars == << schedVars, filterVars, findVars, chunkVars >>

\* ------------------------------------------------------------ JS helpers
\* a value that is undefined, and a defined value v
Undefined == [def |-> FALSE, val |-> <<>>]
Defined(v) == [def |-> TRUE, val |-> v]

\* an empty slot of new Array(n)
Hole == [written |-> FALSE, success |-> FALSE, data |-> Undefined,
         error |-> Undefined, retries |-> -1]

\* the batch indices of an array of n batches
Indices(n) == 0 .. (n - 1)

\* Array.prototype.includes
includes(arr, x) == \E p \in 1 .. Len(arr) : arr[p] = x

\* Array.prototype.indexOf: the first index holding x, or -1
indexOf(arr, x) ==
    IF includes(arr, x)
    THEN (CHOOSE p \in 1 .. Len(arr) :
              arr[p] = x /\ \A q \in 1 .. (p - 1) : arr[q] # x) - 1
    ELSE -1

\* Array.prototype.splice(index, 1)
splice1(arr, index) ==
    SubSeq(arr, 1, index) \o SubSeq(arr, index + 2, Len(arr))

\* error instanceof Error ? error : new Error(String(error))
ToError(e) == IF e.isError THEN e ELSE [isError |-> TRUE, inv |-> e.inv]

\* what invocation number n of a task may throw: an Error, or another value
Thrown(n) == { [isError |-> TRUE, inv |-> n], [isError |-> FALSE, inv |-> n] }

\* what a task of the scheduler-only model may return for batch b
TaskData(b) == { Defined(<<b, v>>) : v \in DataVals } \cup { Undefined }

\* ------------------------------------------------------ processAndTrack
\* a retry test that is off by one
ShouldRetry_OffByOne(retryCount) == retryCount <= maxRetries

\* if (retryCount < maxRetries)
ShouldRetry(retryCount) == retryCount < maxRetries

\* a backoff that doubles with every retry
RECURSIVE BackoffMs_Doubling(_)
BackoffMs_Doubling(retryCount) ==
    IF retryCount = 0 THEN BaseDelayMs ELSE 2 * BackoffMs_Doubling(retryCount - 1)

\* setTimeout(resolve, 1000 * (retryCount + 1))
BackoffMs(retryCount) == BaseDelayMs * (retryCount + 1)

\* results[batchIndex] = { success: true, data: result }
SuccessResult(data) ==
    [written |-> TRUE, success |-> TRUE, data |-> data,
     error |-> Undefined, retries |-> -1]

\* a catch block that forgets to record the failure
FailureResult_NotRecorded(e, retryCount) ==
    [written |-> FALSE, success |-> FALSE, data |-> Undefined,
     error |-> Undefined, retries |-> -1]

\* results[batchIndex] = { success: false, error: ..., retries: retryCount }
FailureResult(e, retryCount) ==
    [written |-> TRUE, success |-> FALSE, data |-> Undefined,
     error |-> Defined(ToError(e)), retries |-> retryCount]

\* .finally(() => { const index = runningPromises.indexOf(promise);
\*                  if (index > -1) runningPromises.splice(index, 1) })
RemoveRunning(running, b) ==
    IF indexOf(running, b) > -1 THEN splice1(running, indexOf(running, b))
    ELSE running

\* the position of a chain that has not been launched
Idle == [st |-> "idle", retryCount |-> 0, timer |-> 0]

\* a settlement that puts the record into the first free slot, as a push
\* onto the results would
Settle_Pushes(b, r) ==
    /\ results' = [results EXCEPT ![Len(completed) + 1] = r]
    /\ task' = [task EXCEPT ![b] = [st |-> "done", retryCount |-> @.retryCount,
                                    timer |-> 0]]
    /\ runningPromises' = RemoveRunning(runningPromises, b)
    /\ completed' = Append(completed, b)

\* processAndTrack settles for batch b with outcome r; its finally callback runs
Settle(b, r) ==
    /\ results' = [results EXCEPT ![b + 1] = r]
    /\ task' = [task EXCEPT ![b] = [st |-> "done", retryCount |-> @.retryCount,
                                    timer |-> 0]]
    /\ runningPromises' = RemoveRunning(runningPromises, b)
    /\ completed' = Append(completed, b)

\* no synchronous code of the scheduler body is running
EventLoopFree == pc \in {"delay", "race", "sleep", "all"}

\* await processBatchFn(...) returned data
CompleteSuccess(b, data) ==
    /\ EventLoopFree
    /\ task[b].st = "running"
    /\ Settle(b, SuccessResult(data))
    /\ UNCHANGED << batches, maxConcurrentBatches, delayBetweenStartsMs, maxRetries,
                    currentBatchIndex, pc, awaited, timerMs, invocations, outcome >>

\* a catch block that records the exhausted failure and then rethrows it: the
\* promise of the batch rejects and the scheduler call rejects with it
CompleteFailure_Rethrow(b, e) ==
    /\ EventLoopFree
    /\ task[b].st = "running"
    /\ IF task[b].retryCount < maxRetries
       THEN /\ task' = [task EXCEPT ![b] = [st |-> "backoff",
                                            retryCount |-> @.retryCount,
                                            timer |-> BaseDelayMs * (@.retryCount + 1)]]
            /\ UNCHANGED << results, runningPromises, completed, pc, outcome >>
       ELSE /\ Settle(b, FailureResult(e, task[b].retryCount))
            /\ pc' = "returned"
            /\ outcome' = [state |-> "rejected", value |-> <<>>]
    /\ UNCHANGED << batches, maxConcurrentBatches, delayBetweenStartsMs, maxRetries,
                    currentBatchIndex, awaited, timerMs, invocations >>

\* a catch block that gives the pool slot back while the batch waits for its
\* retry
CompleteFailure_ReleasesSlot(b, e) ==
    /\ EventLoopFree
    /\ task[b].st = "running"
    /\ IF ShouldRetry(task[b].retryCount)
       THEN /\ task' = [task EXCEPT ![b] = [st |-> "backoff",
                                            retryCount |-> @.retryCount,
                                            timer |-> BackoffMs(@.retryCount)]]
            /\ runningPromises' = RemoveRunning(runningPromises, b)
            /\ UNCHANGED << results, completed >>
       ELSE Settle(b, FailureResult(e, task[b].retryCount))
    /\ UNCHANGED << batches, maxConcurrentBatches, delayBetweenStartsMs, maxRetries,
                    currentBatchIndex, pc, awaited, timerMs, invocations, outcome >>

\* await processBatchFn(...) threw e
CompleteFailure(b, e) ==
    /\ EventLoopFree
    /\ task[b].st = "running"
    /\ IF ShouldRetry(task[b].retryCount)
       THEN /\ task' = [task EXCEPT ![b] = [st |-> "backoff",
                                            retryCount |-> @.retryCount,
                                            timer |-> BackoffMs(@.retryCount)]]
            /\ UNCHANGED << results, runningPromises, completed >>
       ELSE Settle(b, FailureResult(e, task[b].retryCount))
    /\ UNCHANGED << batches, maxConcurrentBatches, delayBetweenStartsMs, maxRetries,
                    currentBatchIndex, pc, awaited, timerMs, invocations, outcome >>

\* the task of batch b returns (scheduler-only model: any payload, or undefined)
TaskReturns(b) ==
    /\ \E d \in TaskData(b) : CompleteSuccess(b, d)
    /\ UNCHANGED callerVars

\* the task of batch b throws
TaskThrows(b) ==
    /\ \E e \in Thrown(invocations[b]) : CompleteFailure(b, e)
    /\ UNCHANGED callerVars

\* a retry that passes the retry count on unchanged:
\* return processAndTrack(batchIndex, retryCount)
BackoffElapsed_KeepsCount(b) ==
    /\ EventLoopFree
    /\ task[b].st = "backoff"
    /\ task' = [task EXCEPT ![b] = [st |-> "running",
                                    retryCount |-> @.retryCount, timer |-> 0]]
    /\ invocations' = [invocations EXCEPT ![b] = @ + 1]
    /\ UNCHANGED callerVars
    /\ UNCHANGED << batches, maxConcurrentBatches, delayBetweenStartsMs, maxRetries,
                    results, currentBatchIndex, runningPromises, pc, awaited,
                    timerMs, completed, outcome >>

\* the backoff timer of batch b fires: return processAndTrack(batchIndex, retryCount + 1)
BackoffElapsed(b) ==
    /\ EventLoopFree
    /\ task[b].st = "backoff"
    /\ task' = [task EXCEPT ![b] = [st |-> "running",
                                    retryCount |-> @.retryCount + 1, timer |-> 0]]
    /\ invocations' = [invocations EXCEPT ![b] = @ + 1]
    /\ UNCHANGED callerVars
    /\ UNCHANGED << batches, maxConcurrentBatches, delayBetweenStartsMs, maxRetries,
                    results, currentBatchIndex, runningPromises, pc, awaited,
                    timerMs, completed, outcome >>

\* ------------------------------------------------ runBatchesInParallel
\* a pool test that admits one execution too many
CanLaunch_OneTooMany ==
    /\ Len(runningPromises) <= maxConcurrentBatches
    /\ currentBatchIndex < Len(batches)

\* a pool test that keeps one slot free
CanLaunch_OneTooFew ==
    /\ Len(runningPromises) < maxConcurrentBatches - 1
    /\ currentBatchIndex < Len(batches)

\* runningPromises.length < maxConcurrentBatches && currentBatchIndex < batches.length
CanLaunch ==
    /\ Len(runningPromises) < maxConcurrentBatches
    /\ currentBatchIndex < Len(batches)

\* while (currentBatchIndex < batches.length) { ... } await Promise.all(runningPromises)
OuterLoop ==
    /\ pc = "outer"
    /\ IF currentBatchIndex < Len(batches)
       THEN pc' = "inner" /\ UNCHANGED awaited
       ELSE pc' = "all" /\ awaited' = { runningPromises[p] : p \in 1 .. Len(runningPromises) }
    /\ UNCHANGED callerVars
    /\ UNCHANGED << batches, maxConcurrentBatches, delayBetweenStartsMs, maxRetries,
                    results, currentBatchIndex, runningPromises, timerMs, task,
                    invocations, completed, outcome >>

\* a body that waits the inter-launch delay after every batch, the last
\* one included
LaunchBatch_AlwaysWaits ==
    /\ pc = "inner"
    /\ CanLaunch
    /\ LET b == currentBatchIndex
       IN /\ currentBatchIndex' = b + 1
          /\ task' = [task EXCEPT ![b] = [st |-> "running", retryCount |-> 0,
                                          timer |-> 0]]
          /\ invocations' = [invocations EXCEPT ![b] = @ + 1]
          /\ runningPromises' = Append(runningPromises, b)
          /\ IF delayBetweenStartsMs > 0
             THEN pc' = "delay" /\ timerMs' = delayBetweenStartsMs
             ELSE pc' = "inner" /\ UNCHANGED timerMs
    /\ UNCHANGED << batches, maxConcurrentBatches, delayBetweenStartsMs, maxRetries,
                    results, awaited, completed, outcome >>

\* the body of the inner while: launch the next batch, then wait the
\* inter-launch delay unless this was the last batch
LaunchBatch ==
    /\ pc = "inner"
    /\ CanLaunch
    /\ LET b == currentBatchIndex
       IN /\ currentBatchIndex' = b + 1
          /\ task' = [task EXCEPT ![b] = [st |-> "running", retryCount |-> 0,
                                          timer |-> 0]]
          /\ invocations' = [invocations EXCEPT ![b] = @ + 1]
          /\ runningPromises' = Append(runningPromises, b)
          /\ IF b + 1 < Len(batches) /\ delayBetweenStartsMs > 0
             THEN pc' = "delay" /\ timerMs' = delayBetweenStartsMs
             ELSE pc' = "inner" /\ UNCHANGED timerMs
    /\ UNCHANGED << batches, maxConcurrentBatches, delayBetweenStartsMs, maxRetries,
                    results, awaited, completed, outcome >>

\* the launch of a task that calls no provider (scheduler-only model)
Launch ==
    /\ LaunchBatch
    /\ UNCHANGED callerVars

\* the inner while ends: race, break or idle wait
AfterInner ==
    /\ pc = "inner"
    /\ ~CanLaunch
    /\ IF Len(runningPromises) >= maxConcurrentBatches
       THEN /\ pc' = "race"
            /\ awaited' = { runningPromises[p] : p \in 1 .. Len(runningPromises) }
            /\ UNCHANGED timerMs
       ELSE IF Len(runningPromises) = 0 /\ currentBatchIndex >= Len(batches)
       THEN /\ pc' = "all"
            /\ awaited' = { runningPromises[p] : p \in 1 .. Len(runningPromises) }
            /\ UNCHANGED timerMs
       ELSE /\ pc' = "sleep"
            /\ timerMs' = IdleDelayMs
            /\ UNCHANGED awaited
    /\ UNCHANGED callerVars
    /\ UNCHANGED << batches, maxConcurrentBatches, delayBetweenStartsMs, maxRetries,
                    results, currentBatchIndex, runningPromises, task, invocations,
                    completed, outcome >>

\* the inter-launch delay elapsed: back to the inner while condition
DelayElapsed ==
    /\ pc = "delay"
    /\ pc' = "inner"
    /\ timerMs' = 0
    /\ UNCHANGED callerVars
    /\ UNCHANGED << batches, maxConcurrentBatches, delayBetweenStartsMs, maxRetries,
                    results, currentBatchIndex, runningPromises, awaited, task,
                    invocations, completed, outcome >>

\* Promise.race(runningPromises) settled: one of the raced promises has settled
RaceSettled == \E p \in awaited : task[p].st = "done"

RaceWon ==
    /\ pc = "race"
    /\ RaceSettled
    /\ pc' = "outer"
    /\ awaited' = {}
    /\ UNCHANGED callerVars
    /\ UNCHANGED << batches, maxConcurrentBatches, delayBetweenStartsMs, maxRetries,
                    results, currentBatchIndex, runningPromises, timerMs, task,
                    invocations, completed, outcome >>

\* the 5 ms idle wait elapsed: back to the outer while condition
SleepElapsed ==
    /\ pc = "sleep"
    /\ pc' = "outer"
    /\ timerMs' = 0
    /\ UNCHANGED callerVars
    /\ UNCHANGED << batches, maxConcurrentBatches, delayBetweenStartsMs, maxRetries,
                    results, currentBatchIndex, runningPromises, awaited, task,
                    invocations, completed, outcome >>

\* a tail that does not wait for the remaining promises
AllSettled_NoWait == TRUE

\* Promise.all(runningPromises) settled: all of its promises have settled
AllSettled == \A p \in awaited : task[p].st = "done"

\* results.filter((r) => r.success): the written, successful entries in index order
RECURSIVE SuccessfulFrom(_, _)
SuccessfulFrom(res, p) ==
    IF p > Len(res) THEN <<>>
    ELSE (IF res[p].written /\ res[p].success THEN << res[p] >> ELSE <<>>)
         \o SuccessfulFrom(res, p + 1)

\* a scheduler that pushes each output when its batch completes
ReturnValue_CompletionOrder(res) ==
    LET done == SelectSeq(completed, LAMBDA b : res[b + 1].written /\ res[b + 1].success)
    IN IF \E p \in 1 .. Len(done) : ~res[done[p] + 1].data.def
       THEN [state |-> "rejected", value |-> <<>>]
       ELSE [state |-> "resolved",
             value |-> [p \in 1 .. Len(done) |-> res[done[p] + 1].data.val]]

\* .map((r) => { if (r.data === undefined) throw ...; return r.data })
ReturnValue(res) ==
    LET ok == SuccessfulFrom(res, 1)
    IN IF \E p \in 1 .. Len(ok) : ~ok[p].data.def
       THEN [state |-> "rejected", value |-> <<>>]
       ELSE [state |-> "resolved", value |-> [p \in 1 .. Len(ok) |-> ok[p].data.val]]

\* the tail of runBatchesInParallel, after await Promise.all(runningPromises)
Return ==
    /\ pc = "all"
    /\ AllSettled
    /\ pc' = "returned"
    /\ awaited' = {}
    /\ outcome' = ReturnValue(results)
    /\ UNCHANGED callerVars
    /\ UNCHANGED << batches, maxConcurrentBatches, delayBetweenStartsMs, maxRetries,
                    results, currentBatchIndex, runningPromises, timerMs, task,
                    invocations, completed >>

Pending == [state |-> "pending", value |-> <<>>]

\* the state at the first statement of runBatchesInParallel (at "outer"), or
\* the state of a scheduler that is never called (at "unused")
SchedulerEntry(bs, conc, delay, retries, at) ==
    /\ batches = bs
    /\ maxConcurrentBatches = conc
    /\ delayBetweenStartsMs = delay
    /\ maxRetries = retries
    /\ results = [p \in 1 .. Len(bs) |-> Hole]
    /\ currentBatchIndex = 0
    /\ runningPromises = <<>>
    /\ pc = at
    /\ awaited = {}
    /\ timerMs = 0
    /\ task = [b \in Indices(Len(bs)) |-> Idle]
    /\ invocations = [b \in Indices(Len(bs)) |-> 0]
    /\ completed = <<>>
    /\ outcome = Pending

\* the steps of the body that launch nothing
SchedulerWaits ==
    \/ OuterLoop
    \/ AfterInner
    \/ DelayElapsed
    \/ RaceWon
    \/ SleepElapsed
    \/ Return

SchedulerStep ==
    \/ Launch
    \/ SchedulerWaits

\* ------------------------------------------------------------- chunk
Min(a, b) == IF a < b THEN a ELSE b

Max(a, b) == IF a > b THEN a ELSE b

\* a slice that includes the element at its end bound
slice_Inclusive(arr, start, end) == SubSeq(arr, start + 1, Min(end + 1, Len(arr)))

\* Array.prototype.slice(start, end): a negative bound counts from the end of
\* the array, a bound past the end is the length
slice(arr, start, end) ==
    LET from == IF start < 0 THEN Max(Len(arr) + start, 0) ELSE Min(start, Len(arr))
        to == IF end < 0 THEN Max(Len(arr) + end, 0) ELSE Min(end, Len(arr))
    IN SubSeq(arr, from + 1, to)

\* for (let i = 0; i < array.length; i += chunkSize) result.push(array.slice(i, i + chunkSize))
RECURSIVE chunkFrom(_, _, _)
chunkFrom(array, chunkSize, i) ==
    IF i < Len(array)
    THEN << slice(array, i, i + chunkSize) >> \o chunkFrom(array, chunkSize, i + chunkSize)
    ELSE <<>>

chunk(array, chunkSize) == chunkFrom(array, chunkSize, 0)

\* chunk, statement by statement
\* the state of a call of chunk at the test of its loop
ChunkEntry(array, chunkSize) ==
    /\ carray = array
    /\ csize = chunkSize
    /\ ci = 0
    /\ cresult = <<>>
    /\ cpc = "loop"

\* the state when chunk is not called on its own
NoChunk ==
    /\ carray = <<>>
    /\ csize = 1
    /\ ci = 0
    /\ cresult = <<>>
    /\ cpc = "unused"

\* ------------------------------------------------------------ options
\* A JavaScript object is the record of its properties.  A value that is not
\* an object is Undefined or Defined(v); a property that is absent reads as
\* Undefined.
isObject(item) == "def" \notin DOMAIN item

\* value !== undefined
isDefined(value) == isObject(value) \/ value.def

\* a ?? b
Coalesce(a, b) == IF isDefined(a) THEN a ELSE b

\* the truthiness of an object, a number or undefined
Truthy(value) == isObject(value) \/ (value.def /\ value.val # 0)

\* object?.key
Get(object, key) ==
    IF isObject(object) /\ key \in DOMAIN object THEN object[key] ELSE Undefined

\* deepMerge(target, source): the properties of target, overwritten by every
\* property of source that is not undefined; two objects are merged in depth
RECURSIVE deepMerge(_, _)
deepMerge(target, source) ==
    [key \in DOMAIN target \cup DOMAIN source |->
        IF key \notin DOMAIN source THEN target[key]
        ELSE LET targetValue == Get(target, key)
                 sourceValue == source[key]
             IN IF isObject(targetValue) /\ isObject(sourceValue)
                THEN deepMerge(targetValue, sourceValue)
                ELSE IF isDefined(sourceValue) THEN sourceValue
                ELSE targetValue]

\* const defaults = { batching: { maxItemsPerBatch: config.batching?.maxItemsPerBatch ?? 50 }, ... }
defaultsOf(cfg) ==
    [batching |->
        [maxItemsPerBatch |->
            Coalesce(Get(Get(cfg, "batching"), "maxItemsPerBatch"),
                     Defined(DefaultMaxItemsPerBatch))],
     parallelism |->
        [maxConcurrentBatches |->
            Coalesce(Get(Get(cfg, "parallelism"), "maxConcurrentBatches"),
                     Defined(DefaultMaxConcurrentBatches)),
         delayBetweenStartsMs |->
            Coalesce(Get(Get(cfg, "parallelism"), "delayBetweenStartsMs"),
                     Defined(DefaultDelayBetweenStartsMs))]]

\* validations that leave out the test of maxConcurrentBatches
validate_NoConcurrencyTest(size, conc, delay) ==
    IF size <= 0 THEN "maxItemsPerBatch must be greater than 0"
    ELSE IF delay < 0 THEN "delayBetweenStartsMs must be non-negative"
    ELSE ""

\* the validations at the end of getEffectiveOptions: the message of the
\* first one that throws, or "" when none does
validate(size, conc, delay) ==
    IF size <= 0 THEN "maxItemsPerBatch must be greater than 0"
    ELSE IF conc <= 0 THEN "maxConcurrentBatches must be greater than 0"
    ELSE IF delay < 0 THEN "delayBetweenStartsMs must be non-negative"
    ELSE ""

\* getEffectiveOptions of filter: the merged options, and the error it throws
getEffectiveOptions(opts, cfg) ==
    LET defaults == defaultsOf(cfg)
        fromConfig ==
            IF Truthy(Get(cfg, "batching")) \/ Truthy(Get(cfg, "parallelism"))
            THEN deepMerge(defaults, defaultsOf(cfg))
            ELSE defaults
        merged ==
            IF Truthy(Get(opts, "batching")) \/ Truthy(Get(opts, "parallelism"))
            THEN deepMerge(fromConfig,
                    [batching |->
                        IF Truthy(opts.batching)
                        THEN [maxItemsPerBatch |->
                                Coalesce(opts.batching.maxItemsPerBatch,
                                         defaults.batching.maxItemsPerBatch)]
                        ELSE defaults.batching,
                     parallelism |->
                        IF Truthy(opts.parallelism)
                        THEN [maxConcurrentBatches |->
                                Coalesce(opts.parallelism.maxConcurrentBatches,
                                         defaults.parallelism.maxConcurrentBatches),
                              delayBetweenStartsMs |->
                                Coalesce(opts.parallelism.delayBetweenStartsMs,
                                         defaults.parallelism.delayBetweenStartsMs)]
                        ELSE defaults.parallelism])
            ELSE fromConfig
    IN [provider |-> Coalesce(Get(opts, "provider"), Get(cfg, "provider")),
        maxItemsPerBatch |-> merged.batching.maxItemsPerBatch.val,
        maxConcurrentBatches |-> merged.parallelism.maxConcurrentBatches.val,
        delayBetweenStartsMs |-> merged.parallelism.delayBetweenStartsMs.val,
        strategy |-> "none",
        error |-> validate(merged.batching.maxItemsPerBatch.val,
                           merged.parallelism.maxConcurrentBatches.val,
                           merged.parallelism.delayBetweenStartsMs.val)]

\* a call without options, and a GLOBAL_CONFIG nobody has set
NoOptions == [provider |-> Undefined, strategy |-> Undefined,
              batching |-> Undefined, parallelism |-> Undefined]
NoConfig == [provider |-> Undefined, batching |-> Undefined, parallelism |-> Undefined]

\* a provider object
SomeProvider == Defined("provider")

\* options and a configuration that set the provider and every number
Settings(size, conc, delay) ==
    [provider |-> SomeProvider,
     batching |-> [maxItemsPerBatch |-> Defined(size)],
     parallelism |-> [maxConcurrentBatches |-> Defined(conc),
                      delayBetweenStartsMs |-> Defined(delay)]]

PerCall(size, conc, delay, strat) ==
    [provider |-> SomeProvider, strategy |-> strat,
     batching |-> [maxItemsPerBatch |-> Defined(size)],
     parallelism |-> [maxConcurrentBatches |-> Defined(conc),
                      delayBetweenStartsMs |-> Defined(delay)]]

Rejected == [state |-> "rejected", value |-> <<>>]
Resolved(v) == [state |-> "resolved", value |-> v]

\* ------------------------------------------------------------ filter
\* unfiltered.filter((_, index) => indices.includes(index))
RECURSIVE filterByIndicesFrom(_, _, _)
filterByIndicesFrom(unfiltered, indices, index) ==
    IF index >= Len(unfiltered) THEN <<>>
    ELSE (IF includes(indices, index) THEN << unfiltered[index + 1] >> ELSE <<>>)
         \o filterByIndicesFrom(unfiltered, indices, index + 1)

\* a selection that maps the indices to items instead of filtering the items
filterByIndices_Mapped(unfiltered, indices) ==
    LET inRange == SelectSeq(indices, LAMBDA k : k >= 0 /\ k < Len(unfiltered))
    IN [p \in 1 .. Len(inRange) |-> unfiltered[inRange[p] + 1]]

filterByIndices(unfiltered, indices) == filterByIndicesFrom(unfiltered, indices, 0)

\* filterSingleBatch, given the indices of the provider's parsed response
filterSingleBatch(its, response) == filterByIndices(its, response)

\* unfiltered.map((item, index) => ({ item, originalIndex: index }))
itemsWithIndices(unfiltered) ==
    [p \in 1 .. Len(unfiltered) |-> [item |-> unfiltered[p], originalIndex |-> p - 1]]

\* batch.filter(({ item }) => filteredItems.includes(item))
RECURSIVE matchingFrom(_, _, _)
matchingFrom(batch, filteredItems, p) ==
    IF p > Len(batch) THEN <<>>
    ELSE (IF includes(filteredItems, batch[p].item) THEN << batch[p] >> ELSE <<>>)
         \o matchingFrom(batch, filteredItems, p + 1)

\* a processBatch that returns positions within the batch, not original indices
processBatch_LocalIndices(batch, response) ==
    LET batchItems == [p \in 1 .. Len(batch) |-> batch[p].item]
        filteredItems == filterByIndicesFrom(batchItems, response, 0)
    IN SelectSeq([p \in 1 .. Len(batch) |-> p - 1],
                 LAMBDA l : includes(filteredItems, batch[l + 1].item))

\* processBatch, try branch: the original indices of the batch entries whose
\* item is among the items filterSingleBatch returned
processBatch(batch, response) ==
    LET batchItems == [p \in 1 .. Len(batch) |-> batch[p].item]
        filteredItems == filterSingleBatch(batchItems, response)
        matching == matchingFrom(batch, filteredItems, 1)
    IN [p \in 1 .. Len(matching) |-> matching[p].originalIndex]

\* resultsPerBatch.flat()
RECURSIVE flat(_)
flat(arrs) == IF arrs = <<>> THEN <<>> ELSE Head(arrs) \o flat(Tail(arrs))

\* [...new Set(arr)]: the first occurrence of each value, in order
RECURSIVE unique(_)
unique(arr) ==
    IF arr = <<>> THEN <<>>
    ELSE LET init == unique(SubSeq(arr, 1, Len(arr) - 1))
             last == arr[Len(arr)]
         IN IF includes(init, last) THEN init ELSE Append(init, last)

\* a tail that lists the matches batch by batch in the order of completion
aggregate_CompletionOrder(unfiltered, resultsPerBatch) ==
    LET order == unique(flat([p \in 1 .. Len(resultsPerBatch) |->
                                 resultsPerBatch[completed[p] + 1]]))
    IN [p \in 1 .. Len(order) |-> unfiltered[order[p] + 1]]

\* the tail of filter: flatten, make unique, select from the original array
aggregate(unfiltered, resultsPerBatch) ==
    filterByIndices(unfiltered, unique(flat(resultsPerBatch)))

\* the index lists a provider may report for n items: any order, repeats and
\* the out-of-range index n included
MaxReport == 2
Responses(n) == UNION { [1 .. m -> 0 .. n] : m \in 0 .. Min(MaxReport, n + 1) }

\* the original indices a response names for a batch (indices out of the
\* batch's range name nothing)
Named(batch, response) ==
    { batch[l + 1].originalIndex :
          l \in { response[p] : p \in 1 .. Len(response) } \cap Indices(Len(batch)) }

\* a response names an index that is no index of a batch of n items
Strays(n, response) == \E p \in 1 .. Len(response) : response[p] \notin Indices(n)

\* the scheduler launches processBatch, which calls provider.execute at once
FilterLaunch ==
    /\ fn = "filter"
    /\ LaunchBatch
    /\ executions' = executions + 1
    /\ UNCHANGED filterVars
    /\ UNCHANGED << chunkVars, fn, options, config, previous, strategy, firstMatchIndex, aborted, skipped,
                    threw, outOfRange >>

\* filter's single-batch path: the provider answers the one call
SingleResponds ==
    /\ fn = "filter"
    /\ fpc = "single"
    /\ \E response \in Responses(Len(items)) :
          /\ output' = [state |-> "resolved",
                        value |-> filterSingleBatch(items, response)]
          /\ reported' = Named(itemsWithIndices(items), response)
          /\ outOfRange' = Strays(Len(items), response)
    /\ fpc' = "done"
    /\ UNCHANGED << items, maxItemsPerBatch, pred >>
    /\ UNCHANGED << chunkVars, fn, options, config, previous, strategy, firstMatchIndex, aborted, skipped,
                    executions, threw >>
    /\ UNCHANGED schedVars

\* filter's single-batch path: the provider call (or the parsing) throws
SingleThrows ==
    /\ fn = "filter"
    /\ fpc = "single"
    /\ output' = [state |-> "rejected", value |-> <<>>]
    /\ fpc' = "done"
    /\ threw' = TRUE
    /\ UNCHANGED << items, maxItemsPerBatch, reported, pred >>
    /\ UNCHANGED << chunkVars, fn, options, config, previous, strategy, firstMatchIndex, aborted, skipped,
                    executions, outOfRange >>
    /\ UNCHANGED schedVars

\* batched path: the provider answers the call made for batch b
BatchResponds(b) ==
    /\ fn = "filter"
    /\ fpc = "sched"
    /\ \E response \in Responses(Len(batches[b + 1])) :
          /\ CompleteSuccess(b, Defined(processBatch(batches[b + 1], response)))
          /\ reported' = reported \cup Named(batches[b + 1], response)
          /\ outOfRange' = (outOfRange \/ Strays(Len(batches[b + 1]), response))
    /\ UNCHANGED << items, maxItemsPerBatch, fpc, output, pred >>
    /\ UNCHANGED << chunkVars, fn, options, config, previous, strategy, firstMatchIndex, aborted, skipped,
                    executions, threw >>

\* batched path: the provider call for batch b throws; processBatch returns []
BatchThrows(b) ==
    /\ fn = "filter"
    /\ fpc = "sched"
    /\ CompleteSuccess(b, Defined(<<>>))
    /\ threw' = TRUE
    /\ UNCHANGED filterVars
    /\ UNCHANGED << chunkVars, fn, options, config, previous, strategy, firstMatchIndex, aborted, skipped,
                    executions, outOfRange >>

\* await runBatchesInParallel(...) settled: combine the results
FilterAggregate ==
    /\ fn = "filter"
    /\ fpc = "sched"
    /\ outcome.state # "pending"
    /\ output' = IF outcome.state = "resolved"
                 THEN [state |-> "resolved", value |-> aggregate(items, outcome.value)]
                 ELSE [state |-> "rejected", value |-> <<>>]
    /\ fpc' = "done"
    /\ UNCHANGED << items, maxItemsPerBatch, reported, pred >>
    /\ UNCHANGED << findVars, chunkVars >>
    /\ UNCHANGED schedVars

\* the response of a provider that decides each item by membership in accept
RECURSIVE Deciding(_, _, _)
Deciding(its, accept, index) ==
    IF index >= Len(its) THEN <<>>
    ELSE (IF its[index + 1] \in accept THEN << index >> ELSE <<>>)
         \o Deciding(its, accept, index + 1)

SingleDecides ==
    /\ fn = "filter"
    /\ fpc = "single"
    /\ output' = [state |-> "resolved",
                  value |-> filterSingleBatch(items, Deciding(items, pred, 0))]
    /\ reported' = Named(itemsWithIndices(items), Deciding(items, pred, 0))
    /\ fpc' = "done"
    /\ UNCHANGED << items, maxItemsPerBatch, pred >>
    /\ UNCHANGED << findVars, chunkVars >>
    /\ UNCHANGED schedVars

BatchDecides(b) ==
    /\ fn = "filter"
    /\ fpc = "sched"
    /\ LET batchItems == [p \in 1 .. Len(batches[b + 1]) |-> batches[b + 1][p].item]
           response == Deciding(batchItems, pred, 0)
       IN /\ CompleteSuccess(b, Defined(processBatch(batches[b + 1], response)))
          /\ reported' = reported \cup Named(batches[b + 1], response)
    /\ UNCHANGED << items, maxItemsPerBatch, fpc, output, pred >>
    /\ UNCHANGED << findVars, chunkVars >>

\* the state of a call that uses no cancellation
NoCancellation ==
    /\ strategy = "none"
    /\ firstMatchIndex = -1
    /\ aborted = FALSE
    /\ skipped = {}

\* filter(unfiltered, predicate, opts) under the configuration cfg, up to its
\* first await or its synchronous throw: the single call of the provider, or
\* the call of runBatchesInParallel on the chunks (maxRetries is left to its
\* default)
FilterEntry(unfiltered, opts, cfg, accept) ==
    LET effective == getEffectiveOptions(opts, cfg)
        size == effective.maxItemsPerBatch
        conc == effective.maxConcurrentBatches
        delay == effective.delayBetweenStartsMs
    IN /\ fn = "filter"
       /\ items = unfiltered
       /\ options = opts
       /\ config = cfg
       /\ maxItemsPerBatch = size
       /\ reported = {}
       /\ pred = accept
       /\ threw = FALSE
       /\ previous = Pending
       /\ NoChunk
       /\ outOfRange = FALSE
       /\ NoCancellation
       /\ IF effective.error # "" \/ ~effective.provider.def
          THEN /\ fpc = "done"
               /\ output = Rejected
               /\ executions = 0
               /\ SchedulerEntry(<<>>, conc, delay, DefaultMaxRetries, "unused")
          ELSE IF size = 0 \/ size >= Len(unfiltered)
          THEN /\ fpc = "single"
               /\ output = Pending
               /\ executions = 1
               /\ SchedulerEntry(<<>>, conc, delay, DefaultMaxRetries, "unused")
          ELSE /\ fpc = "sched"
               /\ output = Pending
               /\ executions = 0
               /\ SchedulerEntry(chunk(itemsWithIndices(unfiltered), size), conc, delay,
                                 DefaultMaxRetries, "outer")

\* the caller variables of a direct call of runBatchesInParallel
NoCaller ==
    /\ items = <<>>
    /\ maxItemsPerBatch = 0
    /\ fpc = "none"
    /\ output = Pending
    /\ reported = {}
    /\ pred = {}
    /\ fn = "none"
    /\ options = NoOptions
    /\ config = NoConfig
    /\ executions = 0
    /\ threw = FALSE
    /\ outOfRange = FALSE
    /\ previous = Pending
    /\ NoCancellation

\* -------------------------------------------------------------- find
\* getEffectiveOptions of find: the merged options, and the error it throws
getEffectiveFindOptions(opts, cfg) ==
    LET defaults == [batching |-> defaultsOf(cfg).batching,
                     parallelism |-> defaultsOf(cfg).parallelism,
                     strategy |-> Defined("unordered")]
        perCall(group, key) ==
            IF Truthy(Get(Get(opts, group), key)) THEN opts[group][key]
            ELSE defaults[group][key]
        mergedOptions ==
            deepMerge(
                [provider |-> Undefined,
                 strategy |-> Coalesce(Get(opts, "strategy"), defaults.strategy),
                 batching |-> [maxItemsPerBatch |-> perCall("batching", "maxItemsPerBatch")],
                 parallelism |->
                    [maxConcurrentBatches |-> perCall("parallelism", "maxConcurrentBatches"),
                     delayBetweenStartsMs |-> perCall("parallelism", "delayBetweenStartsMs")]],
                defaults)
        size == Coalesce(Get(Get(mergedOptions, "batching"), "maxItemsPerBatch"),
                         defaults.batching.maxItemsPerBatch).val
        conc == Coalesce(Get(Get(mergedOptions, "parallelism"), "maxConcurrentBatches"),
                         defaults.parallelism.maxConcurrentBatches).val
        delay == Coalesce(Get(Get(mergedOptions, "parallelism"), "delayBetweenStartsMs"),
                          defaults.parallelism.delayBetweenStartsMs).val
        strat == Coalesce(mergedOptions.strategy, defaults.strategy).val
    IN [provider |-> Coalesce(Get(opts, "provider"), Get(cfg, "provider")),
        maxItemsPerBatch |-> size,
        maxConcurrentBatches |-> conc,
        delayBetweenStartsMs |-> delay,
        strategy |-> strat,
        error |-> IF validate(size, conc, delay) # "" THEN validate(size, conc, delay)
                  ELSE IF strat \notin {"ordered", "unordered"}
                  THEN "strategy must be either 'ordered' or 'unordered'"
                  ELSE ""]

\* the tail of findSingleBatch, given the index parsed from the response
findSingleBatch(its, foundIndex) ==
    IF foundIndex # -1 /\ foundIndex >= 0 /\ foundIndex < Len(its)
    THEN Defined(its[foundIndex + 1])
    ELSE Undefined

\* a lookup that returns the position inside the batch instead of the
\* original index stored with the item
foundOriginalIndex_InBatch(batch, foundIndex) ==
    LET batchItems == [p \in 1 .. Len(batch) |-> batch[p].item]
        foundItem == findSingleBatch(batchItems, foundIndex)
    IN IF foundItem.def /\ indexOf(batchItems, foundItem.val) # -1
       THEN indexOf(batchItems, foundItem.val)
       ELSE -1

\* the original index a batch finds, or -1: the item findSingleBatch returned
\* is looked up again in the batch with findIndex((item) => item === foundItem)
foundOriginalIndex(batch, foundIndex) ==
    LET batchItems == [p \in 1 .. Len(batch) |-> batch[p].item]
        foundItem == findSingleBatch(batchItems, foundIndex)
    IN IF foundItem.def /\ indexOf(batchItems, foundItem.val) # -1
       THEN batch[indexOf(batchItems, foundItem.val) + 1].originalIndex
       ELSE -1

\* a test that never skips a batch
SkipsBatch_Never == FALSE

\* processBatchUnordered, first statement: signal.aborted || firstMatchIndex !== -1
SkipsBatch == aborted \/ firstMatchIndex # -1

\* a test that lets only the batch that finishes first take the slot
MayClaim_FirstFinisher == ~aborted /\ firstMatchIndex = -1 /\ completed = <<>>

\* a test that lets every batch with a match take the slot
MayClaim_Always == TRUE

\* processBatchUnordered, the two tests between the await and the claim:
\* if (signal.aborted) return -1, and if (firstMatchIndex === -1)
MayClaim == ~aborted /\ firstMatchIndex = -1

\* Math.min(...foundIndices) of a non-empty array
MathMin(arr) ==
    CHOOSE m \in { arr[p] : p \in 1 .. Len(arr) } :
        \A p \in 1 .. Len(arr) : m <= arr[p]

\* the tail of the ordered branch
orderedResult(its, resultsPerBatch) ==
    LET foundIndices == SelectSeq(resultsPerBatch, LAMBDA index : index # -1)
    IN IF Len(foundIndices) = 0 THEN Undefined
       ELSE Defined(its[MathMin(foundIndices) + 1])

\* a tail that tests the slot for truthiness: if (firstMatchIndex)
unorderedResult_Truthy(its, first) ==
    IF first # -1 /\ first # 0 THEN Defined(its[first + 1]) ELSE Undefined

\* a tail that returns the match with the lowest original index among the
\* matches the batches reported
unorderedResult_LowestReported(its, first) ==
    IF reported = {} THEN Undefined
    ELSE Defined(its[(CHOOSE m \in reported : \A n \in reported : m <= n) + 1])

\* the tail of the unordered branch
unorderedResult(its, first) ==
    IF first # -1 THEN Defined(its[first + 1]) ELSE Undefined

\* the indices a provider may report for n items: -1, any index, and the
\* out-of-range index n
FoundIndices(n) == -1 .. n

\* the index parsed from a response is neither the no-match value -1 nor an
\* index of a batch of n items
StraysFrom(n, foundIndex) == foundIndex # -1 /\ foundIndex \notin Indices(n)

\* the original index named by the index reported for a batch, if any
NamedBy(batch, foundIndex) ==
    IF foundIndex \in Indices(Len(batch)) THEN { batch[foundIndex + 1].originalIndex }
    ELSE {}

\* the scheduler launches the batch function: processBatchOrdered calls
\* provider.execute at once, processBatchUnordered unless it skips the batch
FindLaunch ==
    /\ fn = "find"
    /\ LaunchBatch
    /\ IF strategy = "unordered" /\ SkipsBatch
       THEN /\ skipped' = skipped \cup {currentBatchIndex}
            /\ UNCHANGED executions
       ELSE /\ executions' = executions + 1
            /\ UNCHANGED skipped
    /\ UNCHANGED filterVars
    /\ UNCHANGED << chunkVars, fn, options, config, previous, strategy, firstMatchIndex, aborted, threw,
                    outOfRange >>

\* a skipped batch: processBatchUnordered has returned -1
FindSkips(b) ==
    /\ fn = "find"
    /\ fpc = "sched"
    /\ b \in skipped
    /\ CompleteSuccess(b, Defined(-1))
    /\ UNCHANGED callerVars

\* the provider answers the call made for batch b with foundIndex
FindBatchAnswer(b, foundIndex) ==
    LET found == foundOriginalIndex(batches[b + 1], foundIndex)
    IN /\ fn = "find"
       /\ fpc = "sched"
       /\ b \notin skipped
       /\ reported' = reported \cup NamedBy(batches[b + 1], foundIndex)
       /\ outOfRange' = (outOfRange \/ StraysFrom(Len(batches[b + 1]), foundIndex))
       /\ IF strategy = "ordered"
          THEN /\ CompleteSuccess(b, Defined(found))
               /\ UNCHANGED << firstMatchIndex, aborted >>
          ELSE IF found # -1 /\ MayClaim
          THEN /\ firstMatchIndex' = found
               /\ aborted' = TRUE
               /\ CompleteSuccess(b, Defined(found))
          ELSE /\ CompleteSuccess(b, Defined(-1))
               /\ UNCHANGED << firstMatchIndex, aborted >>
       /\ UNCHANGED << items, maxItemsPerBatch, fpc, output, pred >>
       /\ UNCHANGED << chunkVars, fn, options, config, previous, strategy, skipped, executions, threw >>

FindBatchResponds(b) ==
    \E foundIndex \in FoundIndices(Len(batches[b + 1])) : FindBatchAnswer(b, foundIndex)

\* a catch block that rethrows: the scheduler sees the failure and retries
FindBatchThrows_Rethrows(b) ==
    /\ fn = "find"
    /\ fpc = "sched"
    /\ b \notin skipped
    /\ \E e \in Thrown(invocations[b]) : CompleteFailure(b, e)
    /\ threw' = TRUE
    /\ UNCHANGED filterVars
    /\ UNCHANGED << chunkVars, fn, options, config, previous, strategy, firstMatchIndex,
                    aborted, skipped, executions, outOfRange >>

\* the provider call for batch b throws (an abort, or any error): the catch
\* block returns -1
FindBatchThrows(b) ==
    /\ fn = "find"
    /\ fpc = "sched"
    /\ b \notin skipped
    /\ CompleteSuccess(b, Defined(-1))
    /\ threw' = TRUE
    /\ UNCHANGED filterVars
    /\ UNCHANGED << chunkVars, fn, options, config, previous, strategy, firstMatchIndex, aborted, skipped,
                    executions, outOfRange >>

\* await runBatchesInParallel(...) settled: the tail of the strategy's branch
FindAggregate ==
    /\ fn = "find"
    /\ fpc = "sched"
    /\ outcome.state # "pending"
    /\ output' = IF outcome.state # "resolved" THEN Rejected
                 ELSE IF strategy = "ordered"
                 THEN Resolved(orderedResult(items, outcome.value))
                 ELSE Resolved(unorderedResult(items, firstMatchIndex))
    /\ fpc' = "done"
    /\ UNCHANGED << items, maxItemsPerBatch, reported, pred >>
    /\ UNCHANGED << findVars, chunkVars >>
    /\ UNCHANGED schedVars

\* find's single-batch path: the provider answers the one call with foundIndex
FindSingleAnswer(foundIndex) ==
    /\ fn = "find"
    /\ fpc = "single"
    /\ output' = Resolved(findSingleBatch(items, foundIndex))
    /\ reported' = NamedBy(itemsWithIndices(items), foundIndex)
    /\ outOfRange' = StraysFrom(Len(items), foundIndex)
    /\ fpc' = "done"
    /\ UNCHANGED << items, maxItemsPerBatch, pred >>
    /\ UNCHANGED << chunkVars, fn, options, config, previous, strategy, firstMatchIndex, aborted, skipped,
                    executions, threw >>
    /\ UNCHANGED schedVars

FindSingleResponds == \E foundIndex \in FoundIndices(Len(items)) : FindSingleAnswer(foundIndex)

\* find's single-batch path: the provider call (or the parsing) throws
FindSingleThrows ==
    /\ fn = "find"
    /\ fpc = "single"
    /\ output' = Rejected
    /\ fpc' = "done"
    /\ threw' = TRUE
    /\ UNCHANGED << items, maxItemsPerBatch, reported, pred >>
    /\ UNCHANGED << chunkVars, fn, options, config, previous, strategy, firstMatchIndex, aborted, skipped,
                    executions, outOfRange >>
    /\ UNCHANGED schedVars

\* the index a provider that decides by membership in accept reports: the
\* first accepted item, or -1
firstAccepted(its, accept) ==
    IF \E p \in 1 .. Len(its) : its[p] \in accept
    THEN (CHOOSE p \in 1 .. Len(its) :
              its[p] \in accept /\ \A q \in 1 .. (p - 1) : its[q] \notin accept) - 1
    ELSE -1

FindSingleDecides == FindSingleAnswer(firstAccepted(items, pred))

FindBatchDecides(b) ==
    FindBatchAnswer(b, firstAccepted([p \in 1 .. Len(batches[b + 1]) |->
                                         batches[b + 1][p].item], pred))

\* a find that merges and validates the options, and checks the provider,
\* before it looks at the length of the input
FindEntry_ValidatesFirst(its, opts, cfg, accept) ==
    LET effective == getEffectiveFindOptions(opts, cfg)
        size == effective.maxItemsPerBatch
        conc == effective.maxConcurrentBatches
        delay == effective.delayBetweenStartsMs
    IN /\ fn = "find"
       /\ items = its
       /\ options = opts
       /\ config = cfg
       /\ reported = {}
       /\ pred = accept
       /\ threw = FALSE
       /\ previous = Pending
       /\ NoChunk
       /\ outOfRange = FALSE
       /\ firstMatchIndex = -1
       /\ aborted = FALSE
       /\ skipped = {}
       /\ maxItemsPerBatch = size
       /\ strategy = effective.strategy
       /\ IF effective.error # "" \/ ~effective.provider.def
          THEN /\ fpc = "done"
               /\ output = Rejected
               /\ executions = 0
               /\ SchedulerEntry(<<>>, conc, delay, DefaultMaxRetries, "unused")
          ELSE IF Len(its) = 0
          THEN /\ fpc = "done"
               /\ output = Resolved(Undefined)
               /\ executions = 0
               /\ SchedulerEntry(<<>>, conc, delay, DefaultMaxRetries, "unused")
          ELSE IF size = 0 \/ size >= Len(its)
          THEN /\ fpc = "single"
               /\ output = Pending
               /\ executions = 1
               /\ SchedulerEntry(<<>>, conc, delay, DefaultMaxRetries, "unused")
          ELSE /\ fpc = "sched"
               /\ output = Pending
               /\ executions = 0
               /\ SchedulerEntry(chunk(itemsWithIndices(its), size), conc, delay,
                                 DefaultMaxRetries, "outer")

\* find(its, predicate, opts) under the configuration cfg, up to its first
\* await, its synchronous return or its synchronous throw
FindEntry(its, opts, cfg, accept) ==
    LET effective == getEffectiveFindOptions(opts, cfg)
        size == effective.maxItemsPerBatch
        conc == effective.maxConcurrentBatches
        delay == effective.delayBetweenStartsMs
    IN /\ fn = "find"
       /\ items = its
       /\ options = opts
       /\ config = cfg
       /\ reported = {}
       /\ pred = accept
       /\ threw = FALSE
       /\ previous = Pending
       /\ NoChunk
       /\ outOfRange = FALSE
       /\ firstMatchIndex = -1
       /\ aborted = FALSE
       /\ skipped = {}
       /\ IF Len(its) = 0
          THEN /\ fpc = "done"
               /\ output = Resolved(Undefined)
               /\ executions = 0
               /\ maxItemsPerBatch = 0
               /\ strategy = "none"
               /\ SchedulerEntry(<<>>, 0, 0, DefaultMaxRetries, "unused")
          ELSE /\ maxItemsPerBatch = size
               /\ strategy = effective.strategy
               /\ IF effective.error # "" \/ ~effective.provider.def
                  THEN /\ fpc = "done"
                       /\ output = Rejected
                       /\ executions = 0
                       /\ SchedulerEntry(<<>>, conc, delay, DefaultMaxRetries, "unused")
                  ELSE IF size = 0 \/ size >= Len(its)
                  THEN /\ fpc = "single"
                       /\ output = Pending
                       /\ executions = 1
                       /\ SchedulerEntry(<<>>, conc, delay, DefaultMaxRetries, "unused")
                  ELSE /\ fpc = "sched"
                       /\ output = Pending
                       /\ executions = 0
                       /\ SchedulerEntry(chunk(itemsWithIndices(its), size), conc, delay,
                                         DefaultMaxRetries, "outer")

\* ------------------------------------------- the scheduler-only model
\* runBatchesInParallel called with n opaque batches and a free task
Init ==
    /\ \E n \in 0 .. MaxBatches, conc \in 1 .. MaxConcurrent, delay \in DelayChoices,
          retries \in 0 .. MaxRetriesBound :
           SchedulerEntry([p \in 1 .. n |-> p - 1], conc, delay, retries, "outer")
    /\ NoCaller
    /\ NoChunk

Next ==
    \/ SchedulerStep
    \/ \E b \in DOMAIN task : TaskReturns(b)
    \/ \E b \in DOMAIN task : TaskThrows(b)
    \/ \E b \in DOMAIN task : BackoffElapsed(b)

Spec == Init /\ [][Next]_vars

\* ------------------------------------------------- the filter model
MaxItems == 3
MaxBatchSize == 3
ItemVals == {"a", "b"}
ItemSeqs == UNION { [1 .. n -> ItemVals] : n \in 0 .. MaxItems }

\* filter called with any items and any valid effective options; the
\* provider answers each call with any index list, or throws
FilterInit ==
    \E unfiltered \in ItemSeqs, size \in 1 .. MaxBatchSize,
       conc \in 1 .. MaxConcurrent, delay \in DelayChoices :
        FilterEntry(unfiltered, PerCall(size, conc, delay, Undefined), NoConfig, {})

FilterNext ==
    \/ FilterLaunch
    \/ SchedulerWaits
    \/ SingleResponds
    \/ SingleThrows
    \/ \E b \in DOMAIN task : BatchResponds(b)
    \/ \E b \in DOMAIN task : BatchThrows(b)
    \/ FilterAggregate

FilterSpec == FilterInit /\ [][FilterNext]_vars

\* filter called with a provider that decides each item by a fixed
\* predicate and never fails
DecidingInit ==
    \E unfiltered \in ItemSeqs, size \in 1 .. MaxBatchSize,
       conc \in 1 .. MaxConcurrent, delay \in DelayChoices, accept \in SUBSET ItemVals :
        FilterEntry(unfiltered, PerCall(size, conc, delay, Undefined), NoConfig, accept)

DecidingNext ==
    \/ FilterLaunch
    \/ SchedulerWaits
    \/ SingleDecides
    \/ \E b \in DOMAIN task : BatchDecides(b)
    \/ FilterAggregate

DecidingSpec == DecidingInit /\ [][DecidingNext]_vars

\* ---------------------------------------------------- the chunk model
\* the test i < array.length holds: result.push(array.slice(i, i + chunkSize)),
\* then i += chunkSize (a loop that no longer ends is followed for
\* MaxItems + 1 rounds, more than any array of the model needs)
ChunkPush ==
    /\ cpc = "loop"
    /\ ci < Len(carray)
    /\ Len(cresult) <= MaxItems
    /\ cresult' = Append(cresult, slice(carray, ci, ci + csize))
    /\ ci' = ci + csize
    /\ UNCHANGED << carray, csize, cpc >>
    /\ UNCHANGED << schedVars, filterVars, findVars >>

\* the test i < array.length fails: return result
ChunkReturn ==
    /\ cpc = "loop"
    /\ ~(ci < Len(carray))
    /\ cpc' = "returned"
    /\ UNCHANGED << carray, csize, ci, cresult >>
    /\ UNCHANGED << schedVars, filterVars, findVars >>

\* the chunk sizes a caller may pass: chunk validates nothing, so zero and a
\* negative size are among them
ChunkSizes == -1 .. MaxBatchSize

\* chunk called on its own with any array and any size
ChunkInit ==
    /\ \E array \in ItemSeqs, chunkSize \in ChunkSizes : ChunkEntry(array, chunkSize)
    /\ SchedulerEntry(<<>>, 1, 0, 0, "unused")
    /\ NoCaller

ChunkNext ==
    \/ ChunkPush
    \/ ChunkReturn

ChunkSpec == ChunkInit /\ [][ChunkNext]_vars

\* --------------------------------------------------- the find model
\* the strategies a caller asks for: none, or one of the two
StrategyChoices == { Undefined, Defined("ordered"), Defined("unordered") }

\* the options of a call that names only a strategy
OnlyStrategy(strat) ==
    [provider |-> Undefined, strategy |-> strat,
     batching |-> Undefined, parallelism |-> Undefined]

\* find called with any items and no options, under a global configuration
\* that sets the provider and valid numbers; the provider answers each call
\* with any index, or throws
FindInit ==
    \E its \in ItemSeqs, size \in 1 .. MaxBatchSize, conc \in 1 .. MaxConcurrent,
       delay \in DelayChoices :
        FindEntry(its, NoOptions, Settings(size, conc, delay), {})

FindNext ==
    \/ FindLaunch
    \/ SchedulerWaits
    \/ FindSingleResponds
    \/ FindSingleThrows
    \/ \E b \in DOMAIN task : FindSkips(b)
    \/ \E b \in DOMAIN task : FindBatchResponds(b)
    \/ \E b \in DOMAIN task : FindBatchThrows(b)
    \/ FindAggregate

FindSpec == FindInit /\ [][FindNext]_vars

\* find called with any strategy and a provider that decides each item by a
\* fixed predicate and never fails
FindDecidingInit ==
    \E its \in ItemSeqs, size \in 1 .. MaxBatchSize, conc \in 1 .. MaxConcurrent,
       delay \in DelayChoices, strat \in StrategyChoices, accept \in SUBSET ItemVals :
        FindEntry(its, OnlyStrategy(strat), Settings(size, conc, delay), accept)

FindDecidingNext ==
    \/ FindLaunch
    \/ SchedulerWaits
    \/ FindSingleDecides
    \/ \E b \in DOMAIN task : FindSkips(b)
    \/ \E b \in DOMAIN task : FindBatchDecides(b)
    \/ FindAggregate

FindDecidingSpec == FindDecidingInit /\ [][FindDecidingNext]_vars

\* ------------------------------------------- the model of the options
\* what a caller may write for each number: nothing, an invalid value, a
\* valid value that differs from the built-in default
SizeChoices == { Undefined, Defined(-1), Defined(0), Defined(1) }
ConcChoices == { Undefined, Defined(0), Defined(2) }
DelayOptionChoices == { Undefined, Defined(-1), Defined(50) }
ProviderChoices == { Undefined, SomeProvider }

\* the strategies a caller may write, an unknown one included
AnyStrategyChoices == { Undefined, Defined("ordered"), Defined("fastest") }

\* the options objects of a call: each group absent or present
OptionChoices ==
    { [provider |-> p, strategy |-> s, batching |-> b, parallelism |-> q] :
        p \in ProviderChoices, s \in AnyStrategyChoices,
        b \in { Undefined } \cup { [maxItemsPerBatch |-> m] : m \in SizeChoices },
        q \in { Undefined } \cup
              { [maxConcurrentBatches |-> c, delayBetweenStartsMs |-> d] :
                  c \in ConcChoices, d \in DelayOptionChoices } }

\* the global configurations: each group unset, set to valid values or set
\* to invalid values
ConfigChoices ==
    { [provider |-> p, batching |-> b, parallelism |-> q] :
        p \in ProviderChoices,
        b \in { Undefined, [maxItemsPerBatch |-> Defined(0)],
                [maxItemsPerBatch |-> Defined(1)] },
        q \in { Undefined,
                [maxConcurrentBatches |-> Defined(2), delayBetweenStartsMs |-> Defined(50)],
                [maxConcurrentBatches |-> Defined(0), delayBetweenStartsMs |-> Defined(-1)] } }

\* the inputs of the calls: the empty array, and an array of two items
CallItems == { <<>>, << "a", "b" >> }

\* filter or find called with any options under any global configuration
CallInit ==
    \E its \in CallItems, opts \in OptionChoices, cfg \in ConfigChoices :
        \/ FilterEntry(its, opts, cfg, {})
        \/ FindEntry(its, opts, cfg, {})

CallNext ==
    \/ FilterNext
    \/ FindNext

CallSpec == CallInit /\ [][CallNext]_vars

\* the scheduler-only model under the scheduling the event loop guarantees:
\* a continuation that is ready runs, a timer that is armed fires, and (the
\* premise of the termination claim) every task invocation completes
LiveMaxBatches == 2

LiveInit ==
    /\ \E n \in 0 .. LiveMaxBatches, conc \in 1 .. MaxConcurrent, delay \in DelayChoices,
          retries \in 0 .. MaxRetriesBound :
           SchedulerEntry([p \in 1 .. n |-> p - 1], conc, delay, retries, "outer")
    /\ NoCaller
    /\ NoChunk

LiveSpec ==
    /\ LiveInit
    /\ [][Next]_vars
    /\ WF_vars(SchedulerStep)
    /\ \A b \in Indices(LiveMaxBatches) :
          /\ WF_vars(b \in DOMAIN task /\ (TaskReturns(b) \/ TaskThrows(b)))
          /\ WF_vars(b \in DOMAIN task /\ BackoffElapsed(b))

\* the scheduler-only model with a task that holds a cancellation token, as
\* processBatchUnordered holds abortController: besides returning or throwing,
\* an invocation may raise the token (abortController.abort()) and return
TaskCancels(b) ==
    /\ \E d \in TaskData(b) : CompleteSuccess(b, d)
    /\ aborted' = TRUE
    /\ UNCHANGED filterVars
    /\ UNCHANGED << chunkVars, fn, options, config, previous, strategy, firstMatchIndex, skipped,
                    executions, threw, outOfRange >>

CancelNext ==
    \/ Next
    \/ \E b \in DOMAIN task : TaskCancels(b)

CancelSpec == LiveInit /\ [][CancelNext]_vars

\* ---------------------------------------------- the same call, made twice
\* the caller makes the finished call once more with the same arguments:
\* the effective options and the chunks are computed from the same values, so
\* the call starts where the first one started, in the batched path (at
\* "outer"), in the single-batch path, or with its synchronous return; the
\* settlement of the first call is kept, with whether its batches completed
\* in index order
CallAgain ==
    /\ fpc = "done"
    /\ previous = Pending
    /\ previous' = [state |-> output.state, value |-> output.value,
                     inOrder |-> completed = [p \in 1 .. Len(batches) |-> p - 1]]
    /\ results' = [p \in 1 .. Len(batches) |-> Hole]
    /\ currentBatchIndex' = 0
    /\ runningPromises' = <<>>
    /\ pc' = IF pc = "returned" THEN "outer" ELSE pc
    /\ awaited' = {}
    /\ timerMs' = 0
    /\ task' = [b \in Indices(Len(batches)) |-> Idle]
    /\ invocations' = [b \in Indices(Len(batches)) |-> 0]
    /\ completed' = <<>>
    /\ outcome' = Pending
    /\ reported' = {}
    /\ firstMatchIndex' = -1
    /\ aborted' = FALSE
    /\ skipped' = {}
    /\ threw' = FALSE
    /\ outOfRange' = FALSE
    /\ IF pc = "returned"
       THEN fpc' = "sched" /\ output' = Pending /\ executions' = 0
       ELSE IF executions = 1
       THEN fpc' = "single" /\ output' = Pending /\ executions' = 1
       ELSE UNCHANGED << fpc, output, executions >>
    /\ UNCHANGED << batches, maxConcurrentBatches, delayBetweenStartsMs, maxRetries >>
    /\ UNCHANGED << items, maxItemsPerBatch, pred, fn, options, config, strategy >>
    /\ UNCHANGED chunkVars

\* filter called twice with a provider that decides each item by a fixed
\* predicate and never fails
FilterTwiceNext ==
    \/ DecidingNext
    \/ CallAgain

FilterTwiceSpec == DecidingInit /\ [][FilterTwiceNext]_vars

\* find called twice with a provider that decides each item by a fixed
\* predicate and never fails
FindTwiceNext ==
    \/ FindDecidingNext
    \/ CallAgain

FindTwiceSpec == FindDecidingInit /\ [][FindTwiceNext]_vars

\* the scheduler-only model with enough retries to tell a linear backoff
\* from a constant or a doubling one
MaxBackoffs == 3

RetryInit ==
    /\ \E n \in 1 .. LiveMaxBatches, conc \in 1 .. MaxConcurrent, delay \in DelayChoices,
          retries \in 0 .. MaxBackoffs :
           SchedulerEntry([p \in 1 .. n |-> p - 1], conc, delay, retries, "outer")
    /\ NoCaller
    /\ NoChunk

RetrySpec == RetryInit /\ [][Next]_vars

\* ------------------------------------------- the first version of find
\* The version of find without cancellation: its batch function always calls
\* the provider, and the result is computed from the array the scheduler
\* returns. It is the call fn = "find1".

\* the tail of the first version: foundIndices[0], or Math.min(...foundIndices)
firstFindResult(its, resultsPerBatch, strat) ==
    LET foundIndices == SelectSeq(resultsPerBatch, LAMBDA index : index # -1)
    IN IF Len(foundIndices) = 0 THEN Undefined
       ELSE IF strat = "ordered" THEN Defined(its[MathMin(foundIndices) + 1])
       ELSE Defined(its[foundIndices[1] + 1])

\* the first version of find(its, predicate, opts) under the configuration
\* cfg, up to its first await, its synchronous return or its synchronous throw
FirstFindEntry(its, opts, cfg, accept) ==
    LET effective == getEffectiveFindOptions(opts, cfg)
        size == effective.maxItemsPerBatch
        conc == effective.maxConcurrentBatches
        delay == effective.delayBetweenStartsMs
    IN /\ fn = "find1"
       /\ items = its
       /\ options = opts
       /\ config = cfg
       /\ reported = {}
       /\ pred = accept
       /\ threw = FALSE
       /\ previous = Pending
       /\ NoChunk
       /\ outOfRange = FALSE
       /\ firstMatchIndex = -1
       /\ aborted = FALSE
       /\ skipped = {}
       /\ IF Len(its) = 0
          THEN /\ fpc = "done"
               /\ output = Resolved(Undefined)
               /\ executions = 0
               /\ maxItemsPerBatch = 0
               /\ strategy = "none"
               /\ SchedulerEntry(<<>>, 0, 0, DefaultMaxRetries, "unused")
          ELSE /\ maxItemsPerBatch = size
               /\ strategy = effective.strategy
               /\ IF effective.error # "" \/ ~effective.provider.def
                  THEN /\ fpc = "done"
                       /\ output = Rejected
                       /\ executions = 0
                       /\ SchedulerEntry(<<>>, conc, delay, DefaultMaxRetries, "unused")
                  ELSE IF size = 0 \/ size >= Len(its)
                  THEN /\ fpc = "single"
                       /\ output = Pending
                       /\ executions = 1
                       /\ SchedulerEntry(<<>>, conc, delay, DefaultMaxRetries, "unused")
                  ELSE /\ fpc = "sched"
                       /\ output = Pending
                       /\ executions = 0
                       /\ SchedulerEntry(chunk(itemsWithIndices(its), size), conc, delay,
                                         DefaultMaxRetries, "outer")

\* the scheduler launches processBatch, which calls provider.execute at once
FirstFindLaunch ==
    /\ fn = "find1"
    /\ LaunchBatch
    /\ executions' = executions + 1
    /\ UNCHANGED filterVars
    /\ UNCHANGED << chunkVars, fn, options, config, previous, strategy, firstMatchIndex, aborted,
                    skipped, threw, outOfRange >>

\* the provider answers the call made for batch b with foundIndex:
\* processBatch returns the original index of the item, or -1
FirstFindBatchAnswer(b, foundIndex) ==
    /\ fn = "find1"
    /\ fpc = "sched"
    /\ reported' = reported \cup NamedBy(batches[b + 1], foundIndex)
    /\ outOfRange' = (outOfRange \/ StraysFrom(Len(batches[b + 1]), foundIndex))
    /\ CompleteSuccess(b, Defined(foundOriginalIndex(batches[b + 1], foundIndex)))
    /\ UNCHANGED << items, maxItemsPerBatch, fpc, output, pred >>
    /\ UNCHANGED << chunkVars, fn, options, config, previous, strategy, firstMatchIndex, aborted,
                    skipped, executions, threw >>

FirstFindBatchResponds(b) ==
    \E foundIndex \in FoundIndices(Len(batches[b + 1])) : FirstFindBatchAnswer(b, foundIndex)

\* the provider call for batch b throws: the catch block returns -1
FirstFindBatchThrows(b) ==
    /\ fn = "find1"
    /\ fpc = "sched"
    /\ CompleteSuccess(b, Defined(-1))
    /\ threw' = TRUE
    /\ UNCHANGED filterVars
    /\ UNCHANGED << chunkVars, fn, options, config, previous, strategy, firstMatchIndex, aborted,
                    skipped, executions, outOfRange >>

\* await runBatchesInParallel(...) settled: the tail of the first version
FirstFindAggregate ==
    /\ fn = "find1"
    /\ fpc = "sched"
    /\ outcome.state # "pending"
    /\ output' = IF outcome.state # "resolved" THEN Rejected
                 ELSE Resolved(firstFindResult(items, outcome.value, strategy))
    /\ fpc' = "done"
    /\ UNCHANGED << items, maxItemsPerBatch, reported, pred >>
    /\ UNCHANGED << findVars, chunkVars >>
    /\ UNCHANGED schedVars

\* the single-batch path: return findSingleBatch(items, predicate, provider)
FirstFindSingleResponds ==
    \E foundIndex \in FoundIndices(Len(items)) :
        /\ fn = "find1"
        /\ fpc = "single"
        /\ output' = Resolved(findSingleBatch(items, foundIndex))
        /\ reported' = NamedBy(itemsWithIndices(items), foundIndex)
        /\ outOfRange' = StraysFrom(Len(items), foundIndex)
        /\ fpc' = "done"
        /\ UNCHANGED << items, maxItemsPerBatch, pred >>
        /\ UNCHANGED << chunkVars, fn, options, config, previous, strategy, firstMatchIndex,
                        aborted, skipped, executions, threw >>
        /\ UNCHANGED schedVars

\* the single-batch path: the provider call throws
FirstFindSingleThrows ==
    /\ fn = "find1"
    /\ fpc = "single"
    /\ output' = Rejected
    /\ fpc' = "done"
    /\ threw' = TRUE
    /\ UNCHANGED << items, maxItemsPerBatch, reported, pred >>
    /\ UNCHANGED << chunkVars, fn, options, config, previous, strategy, firstMatchIndex, aborted,
                    skipped, executions, outOfRange >>
    /\ UNCHANGED schedVars

\* the first version called with any items and any strategy, under a global
\* configuration that sets the provider and valid numbers; the provider
\* answers each call with any index, or throws
FirstFindInit ==
    \E its \in ItemSeqs, size \in 1 .. MaxBatchSize, conc \in 1 .. MaxConcurrent,
       delay \in DelayChoices, strat \in StrategyChoices :
        FirstFindEntry(its, OnlyStrategy(strat), Settings(size, conc, delay), {})

FirstFindNext ==
    \/ FirstFindLaunch
    \/ SchedulerWaits
    \/ FirstFindSingleResponds
    \/ FirstFindSingleThrows
    \/ \E b \in DOMAIN task : FirstFindBatchResponds(b)
    \/ \E b \in DOMAIN task : FirstFindBatchThrows(b)
    \/ FirstFindAggregate

FirstFindSpec == FirstFindInit /\ [][FirstFindNext]_vars

\* ============================================================== claims
\* the batches launched and not yet at a terminal outcome
InFlight == { b \in DOMAIN task : task[b].st \in {"running", "backoff"} }

\* the batches whose recorded outcome is a success, and those recorded failed
Successful == { b \in DOMAIN task : results[b + 1].written /\ results[b + 1].success }
Failed == { b \in DOMAIN task : results[b + 1].written /\ ~results[b + 1].success }

\* the 1-based rank of b among the successful batches, by batch index
Rank(b) == Cardinality({ c \in Successful : c <= b })

\* the position of batch b in the completion history
CompletedAt(b) == CHOOSE p \in 1 .. Len(completed) : completed[p] = b

Settled == outcome.state # "pending"

\* C1: at every moment the number of launched batch executions that have not
\* reached a terminal outcome (those in retry backoff included) is at most
\* maxConcurrentBatches.
C1_PoolBound == Cardinality(InFlight) <= maxConcurrentBatches

\* the pool is full, one of its executions waits in backoff, a batch has
\* completed and further batches wait to be launched
C1_Witness ==
    /\ Cardinality(InFlight) = maxConcurrentBatches
    /\ \E b \in InFlight : task[b].st = "backoff"
    /\ completed # <<>>
    /\ currentBatchIndex < Len(batches)

\* C2: the returned outputs are in ascending batch-index order: whenever
\* batches i < j both succeeded, the output of i precedes the output of j in
\* the returned sequence, whatever the completion order.
C2_InputOrder ==
    outcome.state = "resolved" =>
        \A i, j \in Successful :
            i < j => \E p, q \in 1 .. Len(outcome.value) :
                        /\ p < q
                        /\ outcome.value[p] = results[i + 1].data.val
                        /\ outcome.value[q] = results[j + 1].data.val

\* the call resolved with two successful batches, the later one completed first
C2_Witness ==
    /\ outcome.state = "resolved"
    /\ \E i, j \in Successful : i < j /\ CompletedAt(j) < CompletedAt(i)

\* C3 as stated: the returned sequence has one entry per input batch, and
\* entry i belongs to batch i.
C3_OnePerBatch ==
    outcome.state = "resolved" =>
        /\ Len(outcome.value) = Len(batches)
        /\ \A b \in DOMAIN task : outcome.value[b + 1][1] = b

\* C3 as amended: when the call settles, the results array holds exactly one
\* outcome per batch at the batch's position (every slot written, every batch
\* completed once); the sequence it resolves with holds the outputs of the
\* successful batches only, in batch order, so it has one entry per batch
\* only when no batch failed.
C3_OnePerSuccess ==
    Settled =>
        /\ \A b \in DOMAIN task : results[b + 1].written
        /\ Len(completed) = Len(batches)
        /\ \A b \in DOMAIN task : Cardinality({ p \in 1 .. Len(completed) : completed[p] = b }) = 1
        /\ outcome.state = "resolved" =>
              /\ Len(outcome.value) = Cardinality(Successful)
              /\ \A b \in Successful : outcome.value[Rank(b)] = results[b + 1].data.val

\* the call resolved although a batch failed, and a later batch succeeded
C3_Witness ==
    /\ outcome.state = "resolved"
    /\ \E b \in Failed : \E c \in Successful : b < c

\* C4: a batch whose task failed on every attempt does not abort its
\* siblings: when the call settles every other batch has been launched, its
\* task invoked and its outcome recorded, and the call rejects only for a
\* successful batch whose data is undefined, never for the failure.
C4_SiblingsSurvive ==
    \A b \in Failed :
        Settled =>
            /\ \A c \in DOMAIN task \ {b} : invocations[c] >= 1 /\ results[c + 1].written
            /\ outcome.state = "rejected" => \E c \in Successful : ~results[c + 1].data.def

\* with one execution at a time, batch 0 failed and the batches launched
\* after it succeeded, and the call resolved
C4_Witness ==
    /\ outcome.state = "resolved"
    /\ maxConcurrentBatches = 1
    /\ Len(batches) >= 2
    /\ 0 \in Failed
    /\ \A c \in DOMAIN task \ {0} : c \in Successful

\* C5: a batch whose task fails on every invocation is invoked exactly
\* maxRetries + 1 times (never more), and its recorded failure carries the
\* error of the last invocation and retries = maxRetries; its siblings have
\* their own outcomes when the call settles.
C5_RetryExhaustion ==
    /\ \A b \in DOMAIN task : invocations[b] <= maxRetries + 1
    /\ \A b \in Failed :
          /\ invocations[b] = maxRetries + 1
          /\ results[b + 1].retries = maxRetries
          /\ results[b + 1].error = Defined([isError |-> TRUE, inv |-> maxRetries + 1])
          /\ Settled => \A c \in DOMAIN task : results[c + 1].written

\* with retries allowed, a batch failed for good while a sibling succeeded
C5_Witness ==
    /\ maxRetries >= 1
    /\ Settled
    /\ Failed # {}
    /\ Successful # {}

\* C6: the call settles only after every batch has reached its terminal
\* outcome: once settled, no batch is unlaunched, running or in backoff, and
\* no promise is left in the pool.
C6_SettlesLast ==
    Settled =>
        /\ \A b \in DOMAIN task : task[b].st = "done"
        /\ runningPromises = <<>>
        /\ currentBatchIndex = Len(batches)

\* the call settled after a run in which the last batch to complete had retried
C6_Witness ==
    /\ Settled
    /\ Len(completed) >= 2
    /\ invocations[completed[Len(completed)]] >= 2

\* C7 as stated: the call eventually resolves.
C7_EventuallyResolves == <>(outcome.state = "resolved")

\* C7 as amended: every batch is eventually launched and the call eventually
\* settles; it resolves unless a successful task returned undefined, in which
\* case it rejects.
C7_EventuallySettles ==
    <>( /\ Settled
        /\ currentBatchIndex = Len(batches)
        /\ \A b \in DOMAIN task : invocations[b] >= 1
        /\ (outcome.state = "resolved") <=> (\A b \in Successful : results[b + 1].data.def) )

\* the call settled after launching several batches with an inter-launch
\* delay and a retry
C7_Witness ==
    /\ Settled
    /\ Len(batches) >= 2
    /\ delayBetweenStartsMs > 0
    /\ \E b \in DOMAIN task : invocations[b] >= 2

\* s is a subsequence of t: its elements appear in t at ascending positions
RECURSIVE IsSubsequence(_, _)
IsSubsequence(s, t) ==
    IF s = <<>> THEN TRUE
    ELSE IF t = <<>> THEN FALSE
    ELSE IF Head(s) = Head(t) THEN IsSubsequence(Tail(s), Tail(t))
    ELSE IsSubsequence(s, Tail(t))

\* filter took the batched path and the scheduler has returned
Batched == fpc = "done" /\ pc = "returned"

\* C8: the sequence filter returns is a subsequence of the input in original
\* order, on the single-call path and on the batched path.
C8_Subsequence ==
    output.state = "resolved" => IsSubsequence(output.value, items)

\* the batched path returned two items or more although the first two
\* completions were out of batch order
C8_Witness ==
    /\ Batched
    /\ output.state = "resolved"
    /\ Len(output.value) >= 2
    /\ Len(completed) >= 2
    /\ completed[1] > completed[2]

\* the items of unfiltered at the original indices in keep, in order
RECURSIVE ItemsAt(_, _, _)
ItemsAt(unfiltered, keep, index) ==
    IF index >= Len(unfiltered) THEN <<>>
    ELSE (IF index \in keep THEN << unfiltered[index + 1] >> ELSE <<>>)
         \o ItemsAt(unfiltered, keep, index + 1)

\* C9: batched filter returns exactly the items whose original index was
\* reported by the task of a successful batch (translated from the batch's
\* local indices), also when a batch holds equal items.
C9_ExactlyReported ==
    (Batched /\ output.state = "resolved") =>
        output.value = ItemsAt(items, reported, 0)

\* C10: with a task that decides each item by a fixed predicate and never
\* fails, filter resolves with exactly the items satisfying the predicate, in
\* order: the batched result equals the result of the single call on the
\* whole input.
C10_BatchedEqualsSingle ==
    fpc = "done" =>
        /\ output.state = "resolved"
        /\ output.value = SelectSeq(items, LAMBDA x : x \in pred)
        /\ output.value = filterSingleBatch(items, Deciding(items, pred, 0))

\* the batched path finished over several batches, one of them holding both
\* an accepted and a refused item, with accepted items in two batches
C10_Witness ==
    /\ Batched
    /\ Len(batches) >= 2
    /\ \E p, q \in 1 .. Len(batches[1]) :
          batches[1][p].item \in pred /\ batches[1][q].item \notin pred
    /\ \E p \in 1 .. Len(batches[2]) : batches[2][p].item \in pred

\* ----------------------------------------------------------------- find
\* find has returned or thrown
FindDone == fn = "find" /\ fpc = "done"

\* find went through the scheduler with the unordered strategy
Unordered == fn = "find" /\ strategy = "unordered" /\ pc # "unused"

\* the original indices of the items a deciding provider accepts
Matches == { i \in Indices(Len(items)) : items[i + 1] \in pred }

Lowest(S) == CHOOSE m \in S : \A i \in S : m <= i

\* find resolved with the item v
Found(v) == output.state = "resolved" /\ output.value.def /\ output.value.val = v

\* find resolved with undefined
NotFound == output.state = "resolved" /\ ~output.value.def

\* C11: find called with strategy "ordered" on an input that is cut into at
\* least two batches and holds at least one match resolves with the item at
\* the lowest original index among the matches, in every completion order.
C11_OrderedLowest ==
    (/\ FindDone
     /\ options.strategy.def
     /\ options.strategy.val = "ordered"
     /\ Len(batches) >= 2
     /\ Matches # {})
        => Found(items[Lowest(Matches) + 1])

\* C12: find with the unordered strategy and a provider that decides by a
\* fixed predicate resolves with an item that a batch reported as a match
\* whenever the input holds a match, resolves with undefined exactly when no
\* item matches, and resolves with the one matching item when there is
\* exactly one, in every interleaving of the batch completions.
C12_UnorderedFinds ==
    (FindDone /\ strategy = "unordered") =>
        /\ Matches # {} => \E i \in reported \cap Matches : Found(items[i + 1])
        /\ NotFound <=> Matches = {}
        /\ \A i \in Matches : Matches = {i} => Found(items[i + 1])

\* the call went through the scheduler and returned a match that is not the
\* lowest one, after a batch was skipped
C12_Witness ==
    /\ FindDone
    /\ strategy = "unordered"
    /\ pc = "returned"
    /\ skipped # {}
    /\ firstMatchIndex \in Matches
    /\ firstMatchIndex # Lowest(Matches)
    /\ Found(items[firstMatchIndex + 1])

\* the batch that holds the claimed original index
Claimant ==
    CHOOSE b \in DOMAIN task :
        \E p \in 1 .. Len(batches[b + 1]) :
            batches[b + 1][p].originalIndex = firstMatchIndex

\* the slot has been claimed
Claimed == fn = "find" /\ firstMatchIndex # -1

\* C13: in the unordered strategy, once a batch has claimed the first-match
\* slot no further call of provider.execute begins, and the number of calls
\* made is at most the number of batches that had completed before the
\* claimant plus maxConcurrentBatches.
C13_NoExecuteAfterClaim ==
    /\ [][Claimed => executions' = executions]_vars
    /\ [](Claimed => executions <= (CompletedAt(Claimant) - 1) + maxConcurrentBatches)

\* the call has returned, and a batch that was launched after the claim never
\* reached the provider
C13_Witness ==
    /\ FindDone
    /\ Claimed
    /\ skipped # {}
    /\ executions < Len(batches)

\* the batches whose batch function returned an original index, not -1
Believers == { b \in Successful : results[b + 1].data.val # -1 }

\* C14: in the unordered strategy the first-match slot is written at most
\* once and the signal, once aborted, stays aborted; a batch whose provider
\* reports a match after the claim leaves the slot unchanged and returns -1,
\* so at most one batch returns an index, and it is the index in the slot.
C14_ClaimedOnce ==
    /\ [][/\ Claimed => firstMatchIndex' = firstMatchIndex
          /\ aborted => aborted']_vars
    /\ [](fn = "find" =>
            /\ Cardinality(Believers) <= 1
            /\ \A b \in Believers : results[b + 1].data.val = firstMatchIndex)

\* after the claim, the provider reported a match for another batch, which
\* returned -1
C14_Witness ==
    /\ Claimed
    /\ \E b \in DOMAIN task \ {Claimant} :
          /\ task[b].st = "done"
          /\ b \notin skipped
          /\ \E p \in 1 .. Len(batches[b + 1]) :
                 batches[b + 1][p].originalIndex \in reported
          /\ results[b + 1].data.val = -1

\* the batches whose call of provider.execute has not settled
Executing == { b \in DOMAIN task : task[b].st = "running" /\ b \notin skipped }

\* C15: in the unordered strategy the call resolves as soon as a batch has
\* claimed the slot: between the claim and the settlement of find no call of
\* provider.execute that was in flight settles and no inter-launch delay is
\* waited out.
C15_ResolvesAtClaim ==
    [][(Claimed /\ fpc = "sched") =>
          /\ \A b \in Executing : task'[b].st = "running"
          /\ ~(pc = "delay" /\ pc' # "delay")]_vars

\* -------------------------------------------------------------- options
\* the number the caller wrote in the per-call options, in the global
\* configuration, or undefined
Written(object, group, key) == Get(Get(object, group), key)

\* per-call option, else global configuration, else built-in default
Precedence(perCall, global, default) ==
    IF perCall.def THEN perCall.val
    ELSE IF global.def THEN global.val
    ELSE default

\* the per-call options hold a number that the validations refuse
InvalidPerCall ==
    \/ Written(options, "batching", "maxItemsPerBatch").def
          /\ Written(options, "batching", "maxItemsPerBatch").val <= 0
    \/ Written(options, "parallelism", "maxConcurrentBatches").def
          /\ Written(options, "parallelism", "maxConcurrentBatches").val <= 0
    \/ Written(options, "parallelism", "delayBetweenStartsMs").def
          /\ Written(options, "parallelism", "delayBetweenStartsMs").val < 0

\* no provider is configured, globally or per call
NoProvider == ~options.provider.def /\ ~config.provider.def

\* C16: on an empty input provider.execute is never called, filter resolves
\* with the empty sequence and find resolves with undefined.
C16_EmptyInput ==
    (fn \in {"filter", "find"} /\ items = <<>>) =>
        /\ executions = 0
        /\ fpc = "done" =>
              IF fn = "filter" THEN output = Resolved(<<>>) ELSE NotFound

\* C17: filter and find (here: on a non-empty input) throw before any call
\* of the provider when the per-call options hold maxItemsPerBatch <= 0,
\* maxConcurrentBatches <= 0 or delayBetweenStartsMs < 0, or when no provider
\* is configured.
C17_InvalidOptionsThrow ==
    (fn \in {"filter", "find"} /\ items # <<>> /\ (InvalidPerCall \/ NoProvider)) =>
        (output = Rejected /\ executions = 0)

\* C18: find (here: on a non-empty input) throws before any call of the
\* provider when the caller passes a strategy other than "ordered" and
\* "unordered".
C18_UnknownStrategyThrows ==
    (/\ fn = "find"
     /\ items # <<>>
     /\ options.strategy.def
     /\ options.strategy.val \notin {"ordered", "unordered"})
        => (output = Rejected /\ executions = 0)

\* C19: in find (on a non-empty input) each effective option is the per-call
\* option when the caller wrote one, else the value of the global
\* configuration, else the built-in default.
C19_OptionPrecedence ==
    (fn = "find" /\ items # <<>>) =>
        /\ strategy = Precedence(options.strategy, Undefined, "unordered")
        /\ maxItemsPerBatch =
              Precedence(Written(options, "batching", "maxItemsPerBatch"),
                         Written(config, "batching", "maxItemsPerBatch"),
                         DefaultMaxItemsPerBatch)
        /\ maxConcurrentBatches =
              Precedence(Written(options, "parallelism", "maxConcurrentBatches"),
                         Written(config, "parallelism", "maxConcurrentBatches"),
                         DefaultMaxConcurrentBatches)
        /\ delayBetweenStartsMs =
              Precedence(Written(options, "parallelism", "delayBetweenStartsMs"),
                         Written(config, "parallelism", "delayBetweenStartsMs"),
                         DefaultDelayBetweenStartsMs)

\* C20: a task failure never makes filter or find reject, whatever the input
\* and the batch size (the options being valid): the call resolves.
C20_FailureNeverRejects ==
    (fn \in {"filter", "find"} /\ fpc = "done") => output.state = "resolved"

\* ------------------------------------------------------------ claims C21..C30
\* C21: in filter and find, a batch whose call of the provider threw is invoked
\* again, up to maxRetries more times, before it is given up: with
\* maxRetries > 0, a run of the scheduler in which a call threw has invoked
\* some batch more than once by the time it returns.
C21_ThrownIsRetried ==
    (threw /\ pc = "returned" /\ maxRetries > 0)
        => \E b \in DOMAIN task : invocations[b] > 1

\* C22: once the cancellation token is raised, a batch that waits in backoff
\* (or is about to) is not invoked again.
C22_CancelStopsRetry ==
    [][\A b \in DOMAIN task :
          (aborted /\ task[b].st = "backoff") => invocations'[b] = invocations[b]]_vars

\* C23: a call in which a response named an index outside its batch's range
\* (other than find's no-match value -1) ends with an error for the caller.
C23_OutOfRangeSurfaces ==
    (outOfRange /\ fpc = "done") => output.state = "rejected"

\* both calls of a call made twice have settled
BothDone == fpc = "done" /\ previous # Pending

\* C24: with a task whose decisions are fixed, two runs of filter on the same
\* input and options settle with identical sequences, whatever the order in
\* which the batches of either run complete.
C24_FilterDeterministic ==
    (fn = "filter" /\ BothDone) =>
        (output.state = previous.state /\ output.value = previous.value)

\* both calls took the batched path and returned items of two batches; the
\* batches of the first call completed in index order, those of the second
\* call did not
C24_Witness ==
    /\ fn = "filter"
    /\ BothDone
    /\ Batched
    /\ previous.inOrder
    /\ completed # [p \in 1 .. Len(batches) |-> p - 1]
    /\ \E b, c \in Successful : b # c /\ results[b + 1].data.val # <<>>
                                  /\ results[c + 1].data.val # <<>>

MatchingBatches ==
    { b \in Indices(Len(batches)) :
          \E p \in 1 .. Len(batches[b + 1]) : batches[b + 1][p].item \in pred }

RECURSIVE Concat(_)
Concat(arrs) == IF arrs = <<>> THEN <<>> ELSE Head(arrs) \o Concat(Tail(arrs))

\* chunk has returned, for a size of at least 1
Chunked == cpc = "returned" /\ csize >= 1

\* C26: for every sequence and every size >= 1, the batches chunk returns
\* partition the sequence in order: their concatenation is the sequence,
\* every batch but the last has exactly size elements, the last has between
\* 1 and size elements, an empty sequence yields no batches; chunk never
\* assigns to its input. The loop returns what the operator chunk computes.
C26_ChunkPartitions ==
    /\ [](Chunked =>
            /\ Concat(cresult) = carray
            /\ \A p \in 1 .. (Len(cresult) - 1) : Len(cresult[p]) = csize
            /\ cresult # <<>> =>
                   (Len(cresult[Len(cresult)]) >= 1 /\ Len(cresult[Len(cresult)]) <= csize)
            /\ carray = <<>> => cresult = <<>>
            /\ cresult = chunk(carray, csize))
    /\ [][carray' = carray]_vars

\* chunk returned several batches, the last one shorter than the others
C26_Witness ==
    /\ Chunked
    /\ Len(cresult) >= 2
    /\ Len(cresult[Len(cresult)]) < csize

\* C27: chunk fails with an InvalidArgument error whenever size <= 0: it
\* neither returns nor pushes a batch.
C27_InvalidSizeThrows ==
    csize <= 0 => (cpc # "returned" /\ cresult = <<>>)

\* the caller asked for the ordered strategy
AsksOrdered == fn = "find" /\ options.strategy = Defined("ordered")

\* C28: under the ordered strategy every batch's task is executed, also the
\* batches launched after an earlier batch reported a match, and the result
\* is computed only after all batches are done.
C28_OrderedRunsAll ==
    (AsksOrdered /\ pc # "unused") =>
        /\ skipped = {}
        /\ fpc = "done" => (executions = Len(batches) /\ Settled)

\* the batches whose provider call reported a match
Reporters ==
    { b \in DOMAIN task :
          /\ task[b].st = "done"
          /\ b \notin skipped
          /\ \E p \in 1 .. Len(batches[b + 1]) :
                 batches[b + 1][p].originalIndex \in reported }

\* the reporter that finished first
FirstReporter ==
    CHOOSE b \in Reporters : \A c \in Reporters : CompletedAt(b) <= CompletedAt(c)

\* C29: in the unordered strategy the returned item is the match of the
\* matching batch that finished first, whatever its index; a matching batch
\* that finishes later never determines the result, and without any match
\* the result is undefined.
C29_FirstFinisherWins ==
    (FindDone /\ pc = "returned") =>
        IF Reporters = {} THEN NotFound
        ELSE /\ Claimant = FirstReporter
             /\ Found(items[firstMatchIndex + 1])

\* two batches reported a match, the one with the higher index finished
\* first, and its match, an item that differs from the other match, was
\* returned
C29_Witness ==
    /\ FindDone
    /\ pc = "returned"
    /\ \E b, c \in Reporters :
          /\ b < c
          /\ CompletedAt(c) < CompletedAt(b)
          /\ Claimant = c
          /\ \A p \in 1 .. Len(batches[b + 1]) :
                 batches[b + 1][p].item # items[firstMatchIndex + 1]

\* the step launches batch b: its first invocation
Launches(b) == task[b].st = "idle" /\ task'[b].st # "idle"

\* C30: batches are launched in input order, each exactly once: the launched
\* batches are always the first currentBatchIndex ones and a launched batch
\* is never launched again. When delayBetweenStartsMs > 0, every launch but
\* the last starts a wait of delayBetweenStartsMs, and no batch is launched
\* before that wait is over; the last launch, and any launch when the delay
\* is 0, starts no wait.
C30_LaunchOrderAndDelay ==
    /\ [](\A b \in DOMAIN task : task[b].st # "idle" <=> b < currentBatchIndex)
    /\ [][\A b \in DOMAIN task :
            /\ task[b].st # "idle" => task'[b].st # "idle"
            /\ Launches(b) =>
                  /\ b = currentBatchIndex
                  /\ pc = "inner"
                  /\ invocations[b] = 0 /\ invocations'[b] = 1
                  /\ IF b + 1 < Len(batches) /\ delayBetweenStartsMs > 0
                     THEN pc' = "delay" /\ timerMs' = delayBetweenStartsMs
                     ELSE pc' # "delay"]_vars
    /\ [][pc = "delay" =>
            \/ pc' = "delay" /\ currentBatchIndex' = currentBatchIndex
            \/ pc' = "inner" /\ currentBatchIndex' = currentBatchIndex]_vars

\* with a delay and three batches, the last batch has just been launched,
\* after two waits, and no wait follows it
C30_Witness ==
    /\ delayBetweenStartsMs > 0
    /\ Len(batches) = 3
    /\ currentBatchIndex = 3
    /\ pc = "inner"
    /\ task[2].st = "running"
    /\ invocations[2] = 1

\* ------------------------------------------------------------ claims C31..C40
\* C31: the wait before the retry that follows the k-th failed attempt
\* (k = retryCount + 1 <= maxRetries) is exactly 1000 * k milliseconds, and
\* when it is over the same batch is invoked once more, with retryCount
\* incremented by exactly 1; no other batch is touched by that step.
C31_LinearBackoff ==
    /\ [](\A b \in DOMAIN task :
            task[b].st = "backoff" =>
                /\ task[b].retryCount < maxRetries
                /\ task[b].timer = 1000 * (task[b].retryCount + 1))
    /\ [][\A b \in DOMAIN task :
            (task[b].st = "backoff" /\ task'[b].st # "backoff") =>
                /\ task'[b].st = "running"
                /\ task'[b].retryCount = task[b].retryCount + 1
                /\ invocations'[b] = invocations[b] + 1
                /\ \A c \in DOMAIN task \ {b} :
                       task'[c] = task[c] /\ invocations'[c] = invocations[c]
                /\ batches' = batches]_vars

\* a batch waits 3000 ms after its third failed attempt while another batch
\* has completed
C31_Witness ==
    \E b, c \in DOMAIN task :
        /\ b # c
        /\ task[b].st = "backoff"
        /\ task[b].retryCount = 2
        /\ task[b].timer = 3000
        /\ task[c].st = "done"

\* C32: the results array keeps the length of the batches list; a step
\* changes at most one slot, the slot of the batch whose execution ends in
\* that step, and that slot was not written before: slot i is written once,
\* by batch i only, and the batches list is never changed.
C32_OwnSlotOnly ==
    /\ [](Len(results) = Len(batches))
    /\ [][/\ batches' = batches
          /\ \A p \in 1 .. Len(results) :
                results'[p] # results[p] =>
                    /\ ~results[p].written /\ results'[p].written
                    /\ task[p - 1].st = "running" /\ task'[p - 1].st = "done"
                    /\ \A q \in 1 .. Len(results) : q # p => results'[q] = results[q]]_vars

\* both slots are written, the second batch completed first, and the first
\* one was retried before it was recorded
C32_Witness ==
    /\ Len(batches) >= 2
    /\ results[1].written /\ results[2].written
    /\ CompletedAt(1) < CompletedAt(0)
    /\ invocations[0] > 1

\* the batches that observed the raised token: skipped at their start, or
\* completed after the claimant
Observers ==
    { b \in DOMAIN task :
          /\ task[b].st = "done"
          /\ b # Claimant
          /\ b \in skipped \/ CompletedAt(b) > CompletedAt(Claimant) }

\* C33: in the unordered strategy a batch that observes the raised token,
\* before it starts, after its provider call returns or through an error the
\* call throws, is recorded as the successful outcome -1; no batch is ever
\* recorded as a failure, waits in backoff or is invoked a second time.
C33_AbortIsNoMatch ==
    (fn = "find" /\ pc # "unused") =>
        /\ \A b \in DOMAIN task :
              /\ task[b].st # "backoff"
              /\ invocations[b] <= 1
              /\ results[b + 1].written => results[b + 1].success
        /\ Claimed => \A b \in Observers : results[b + 1] = SuccessResult(Defined(-1))

\* after the claim one batch was skipped at its start and the provider call
\* of another one, in flight at the claim, threw
C33_Witness ==
    /\ FindDone
    /\ Claimed
    /\ threw
    /\ \E b, c \in Observers : b \in skipped /\ c \notin skipped

\* the first version has resolved through its batched path
FirstFindDone == fn = "find1" /\ fpc = "done" /\ pc = "returned" /\ output.state = "resolved"

\* the batches whose outcome is an index, and the one of them that completed
\* first
Finders == { b \in DOMAIN task : results[b + 1].written /\ results[b + 1].data.val # -1 }

FirstFinder == CHOOSE b \in Finders : \A c \in Finders : CompletedAt(b) <= CompletedAt(c)

\* C34: in the first version of find the unordered strategy returns the match
\* of the matching batch that completed first.
C34_FirstCompletedWins ==
    (FirstFindDone /\ strategy = "unordered" /\ Finders # {}) =>
        output.value = Defined(items[results[FirstFinder + 1].data.val + 1])

\* the original indices of the items of batch b
RangeOf(b) == { batches[b + 1][p].originalIndex : p \in 1 .. Len(batches[b + 1]) }

\* C35: in the unordered strategy, whenever control can pass between batches
\* the token is aborted exactly when the first-match slot holds an index, and
\* that index is an original index of the batch that claimed it, a batch
\* that has completed with this index as its outcome.
C35_TokenFollowsSlot ==
    fn = "find" =>
        /\ aborted <=> firstMatchIndex # -1
        /\ firstMatchIndex # -1 =>
              \E b \in DOMAIN task :
                  /\ task[b].st = "done"
                  /\ results[b + 1] = SuccessResult(Defined(firstMatchIndex))
                  /\ firstMatchIndex \in RangeOf(b)
                  /\ \A c \in DOMAIN task \ {b} :
                         results[c + 1].written => results[c + 1].data = Defined(-1)

\* a batch other than the first one has claimed the slot while another
\* batch is still waiting for its provider call
C35_Witness ==
    /\ Claimed
    /\ aborted
    /\ firstMatchIndex > 0
    /\ Claimant > 0
    /\ \E c \in DOMAIN task : c # Claimant /\ c \notin skipped /\ task[c].st = "running"

\* the global configuration holds a number that the validations refuse
InvalidGlobal ==
    \/ Written(config, "batching", "maxItemsPerBatch").def
          /\ Written(config, "batching", "maxItemsPerBatch").val <= 0
    \/ Written(config, "parallelism", "maxConcurrentBatches").def
          /\ Written(config, "parallelism", "maxConcurrentBatches").val <= 0
    \/ Written(config, "parallelism", "delayBetweenStartsMs").def
          /\ Written(config, "parallelism", "delayBetweenStartsMs").val < 0

\* C36: find on an empty input returns undefined before the options are
\* merged and validated and before the provider is looked up: the call is
\* settled with undefined at once, the provider and the scheduler are never
\* used, and nothing is raised whatever the options and the configuration.
C36_EmptyBeforeValidation ==
    (fn = "find" /\ items = <<>>) =>
        /\ fpc = "done"
        /\ output = Resolved(Undefined)
        /\ executions = 0
        /\ ~threw
        /\ pc = "unused"
        /\ batches = <<>>

\* find was called on the empty array with invalid numbers per call and in
\* the global configuration, an unknown strategy and no provider
C36_Witness ==
    /\ fn = "find"
    /\ items = <<>>
    /\ InvalidPerCall
    /\ InvalidGlobal
    /\ NoProvider
    /\ options.strategy.def
    /\ options.strategy.val \notin {"ordered", "unordered"}
    /\ output = Resolved(Undefined)

\* the batches whose promise is in the pool
InPool == { runningPromises[p] : p \in 1 .. Len(runningPromises) }

\* C37: a batch waiting in retry backoff keeps its pool slot: the pool holds
\* exactly the launched batches without a terminal outcome, each once, a
\* batch leaves it only in the step that records its outcome, and no batch
\* is launched while maxConcurrentBatches of them are running or in backoff.
C37_BackoffKeepsSlot ==
    /\ [](/\ InPool = InFlight
          /\ Len(runningPromises) = Cardinality(InPool))
    /\ [][/\ \A b \in InPool \ InPool' : task'[b].st = "done" /\ results'[b + 1].written
          /\ currentBatchIndex' # currentBatchIndex =>
                Cardinality(InFlight) < maxConcurrentBatches]_vars

\* a pool of one slot is held by a batch in backoff while the scheduler
\* waits and the next batch has not been launched
C37_Witness ==
    /\ maxConcurrentBatches = 1
    /\ task[0].st = "backoff"
    /\ runningPromises = << 0 >>
    /\ Len(batches) = 2
    /\ task[1].st = "idle"
    /\ pc = "race"

\* C38: a batch whose task fails on its first k invocations and then succeeds
\* (k is the retry count of its chain, at most maxRetries) has been invoked
\* exactly k + 1 times when its success is recorded, the outcome carries the
\* data that invocation returned, and the batch is never invoked again.
C38_SuccessAfterFailures ==
    /\ [](\A b \in Successful :
              /\ task[b].retryCount <= maxRetries
              /\ invocations[b] = task[b].retryCount + 1
              /\ results[b + 1].data \in TaskData(b))
    /\ [][\A b \in DOMAIN task :
              /\ b \in Successful' \ Successful =>
                    /\ task[b].st = "running"
                    /\ invocations[b] = task[b].retryCount + 1
                    /\ invocations'[b] = invocations[b]
              /\ b \in Successful =>
                    /\ invocations'[b] = invocations[b]
                    /\ results'[b + 1] = results[b + 1]
                    /\ task'[b] = task[b]]_vars

\* one batch succeeded on its third invocation, after two failures, and
\* another one on its first; the call has returned
C38_Witness ==
    /\ pc = "returned"
    /\ \E b, c \in Successful :
          /\ task[b].retryCount = 2
          /\ invocations[b] = 3
          /\ results[b + 1].data.def
          /\ invocations[c] = 1
          /\ maxRetries = 3

\* the numbers in effect are the ones chunk and the scheduler terminate with
ValidNumbers ==
    /\ maxItemsPerBatch >= 1
    /\ maxConcurrentBatches >= 1
    /\ delayBetweenStartsMs >= 0

\* C39: for every per-call options object and global configuration, filter
\* and find either throw before chunking, without entering the scheduler and
\* without a provider call, or hand chunk a size >= 1 and the scheduler a
\* maxConcurrentBatches >= 1 and a delayBetweenStartsMs >= 0 (the one call
\* that neither validates nor throws is find on the empty array, which
\* returns at once and reaches neither).
C39_ValidOrThrows ==
    fn \in {"filter", "find"} =>
        IF ValidNumbers
        THEN pc # "unused" =>
                 /\ batches = chunk(itemsWithIndices(items), maxItemsPerBatch)
                 /\ Len(batches) >= 2
        ELSE /\ pc = "unused"
             /\ batches = <<>>
             /\ executions = 0
             /\ fpc = "done"
             /\ output = Rejected \/ (fn = "find" /\ items = <<>>)

\* filter runs its batches with valid per-call numbers although the global
\* configuration holds invalid ones
C39_Witness ==
    /\ fn = "filter"
    /\ InvalidGlobal
    /\ ~InvalidPerCall
    /\ ValidNumbers
    /\ pc = "returned"
    /\ Len(batches) = 2

\* the call threw before its first await: invalid merged options or no provider
EntryThrew == fpc = "done" /\ output = Rejected /\ ~threw /\ pc = "unused"

\* the number of batches of n items in batches of size: ceil(n / size)
Ceil(n, size) == (n + size - 1) \div size

\* C40: filter and find (on a non-empty input, the options being accepted)
\* use the scheduler if and only if the input is longer than the effective
\* maxItemsPerBatch; otherwise they call the provider exactly once, and a
\* failure of that call rejects the operation. In the batched path, when no
\* provider call fails, filter and a find asked for the ordered strategy
\* call the provider exactly ceil(n / maxItemsPerBatch) times.
C40_SingleOrBatched ==
    (fn \in {"filter", "find"} /\ items # <<>> /\ ~EntryThrew) =>
        /\ pc # "unused" <=> Len(items) > maxItemsPerBatch
        /\ pc = "unused" =>
              /\ executions = 1
              /\ (fpc = "done" /\ threw) => output = Rejected
        /\ (/\ pc # "unused"
            /\ fpc = "done"
            /\ ~threw
            /\ \/ fn = "filter"
               \/ options.strategy = Defined("ordered")) =>
              executions = Ceil(Len(items), maxItemsPerBatch)

====
